---- MODULE Spec2Model ----
(***************************************************************************)
(* curlens: the incremental summarization pipeline of the hook handler     *)
(* (hooks/session_end.py), the summary store (db.py), the summary engine   *)
(* (summarize.py) and the batch backfill (backfill.py).                    *)
(*                                                                         *)
(* Texts are sequences of one-character strings, so that length, word,     *)
(* alphabetic-character and substring tests are computed as the code       *)
(* computes them.                                                          *)
(***************************************************************************)
EXTENDS Integers, Sequences, FiniteSets, TLC

(***************************************************************************)
(* Bounds of the model.                                                    *)
(***************************************************************************)
\* Largest number of blob rows a conversation's store grows to.
MaxBlobs == 3
\* Largest reading of the millisecond clock.
MaxClock == 2

(***************************************************************************)
(* Characters and the str methods the code uses.                           *)
(***************************************************************************)
LowerLetters == <<"a","b","c","d","e","f","g","h","i","j","k","l","m","n","o","p","q","r","s","t","u","v","w","x","y","z">>
UpperLetters == <<"A","B","C","D","E","F","G","H","I","J","K","L","M","N","O","P","Q","R","S","T","U","V","W","X","Y","Z">>
Range(s) == {s[i] : i \in DOMAIN s}
\* str.isspace for the characters of the model
Whitespace == {" ", "\n", "\t"}
UpperSet == Range(UpperLetters)
AlphaSet == Range(LowerLetters) \cup Range(UpperLetters)
LowerOf ==
    "A" :> "a" @@ "B" :> "b" @@ "C" :> "c" @@ "D" :> "d" @@ "E" :> "e" @@ "F" :> "f" @@
    "G" :> "g" @@ "H" :> "h" @@ "I" :> "i" @@ "J" :> "j" @@ "K" :> "k" @@ "L" :> "l" @@
    "M" :> "m" @@ "N" :> "n" @@ "O" :> "o" @@ "P" :> "p" @@ "Q" :> "q" @@ "R" :> "r" @@
    "S" :> "s" @@ "T" :> "t" @@ "U" :> "u" @@ "V" :> "v" @@ "W" :> "w" @@ "X" :> "x" @@
    "Y" :> "y" @@ "Z" :> "z"
\* c.isalpha()
isalpha(c) == c \in AlphaSet
\* one character of str.lower()
lower_char(c) == IF c \in UpperSet THEN LowerOf[c] ELSE c
\* str.lower()
lower(s) == SubSeq([i \in 1..Len(s) |-> lower_char(s[i])], 1, Len(s))
\* The first index from i on, and the last index from j back, of a character
\* that is not whitespace: Len(s) + 1 and 0 when there is none.
RECURSIVE first_kept(_, _)
first_kept(s, i) ==
    IF i > Len(s) THEN i ELSE IF s[i] \notin Whitespace THEN i ELSE first_kept(s, i + 1)
RECURSIVE last_kept(_, _)
last_kept(s, j) ==
    IF j < 1 THEN j ELSE IF s[j] \notin Whitespace THEN j ELSE last_kept(s, j - 1)
\* str.strip()
strip(s) == SubSeq(s, first_kept(s, 1), last_kept(s, Len(s)))
\* the first index >= from at which pat occurs in s, 0 when there is none
find(s, pat, from) ==
    LET hits == {i \in from..(Len(s) - Len(pat) + 1) : SubSeq(s, i, i + Len(pat) - 1) = pat}
    IN  IF hits = {} THEN 0 ELSE CHOOSE i \in hits : \A j \in hits : i <= j
\* the last index at which pat occurs in s, 0 when there is none
rfind(s, pat) ==
    LET hits == {i \in 1..(Len(s) - Len(pat) + 1) : SubSeq(s, i, i + Len(pat) - 1) = pat}
    IN  IF hits = {} THEN 0 ELSE CHOOSE i \in hits : \A j \in hits : j <= i
\* pat in s
contains(s, pat) == find(s, pat, 1) # 0
\* s.startswith(pat)
startswith(s, pat) == Len(pat) <= Len(s) /\ SubSeq(s, 1, Len(pat)) = pat
\* s[:n]
prefix(s, n) == SubSeq(s, 1, IF Len(s) < n THEN Len(s) ELSE n)
\* list[:n]
slice_to(s, n) ==
    IF n >= 0 THEN prefix(s, n)
    ELSE SubSeq(s, 1, IF Len(s) + n < 0 THEN 0 ELSE Len(s) + n)
\* sum(1 for c in s if c.isalpha())
alpha_count(s) == Cardinality({i \in DOMAIN s : isalpha(s[i])})
\* str.split(): the maximal runs of non-whitespace characters, in order
RECURSIVE split(_)
split(s) ==
    LET keep == {i \in DOMAIN s : s[i] \notin Whitespace}
    IN  IF keep = {} THEN <<>>
        ELSE LET a    == CHOOSE i \in keep : \A j \in keep : i <= j
                 gaps == {i \in a..Len(s) : s[i] \in Whitespace}
                 b    == IF gaps = {} THEN Len(s) + 1
                         ELSE CHOOSE i \in gaps : \A j \in gaps : i <= j
             IN  <<SubSeq(s, a, b - 1)>> \o split(SubSeq(s, b, Len(s)))
\* sep.join(parts)
RECURSIVE join(_, _)
join(sep, parts) ==
    IF parts = <<>> THEN <<>>
    ELSE IF Len(parts) = 1 THEN parts[1]
    ELSE parts[1] \o sep \o join(sep, Tail(parts))

(***************************************************************************)
(* Python's None for an optional text.                                     *)
(***************************************************************************)
NoneText == [isNone |-> TRUE, text |-> <<>>]
SomeText(t) == [isNone |-> FALSE, text |-> t]
\* Python truthiness of an Optional[str]
truthy(o) == ~o.isNone /\ o.text # <<>>
\* None where a name or a path is optional
NoneVal == "None"

(***************************************************************************)
(* hooks/session_end.py: the content extractor.                            *)
(***************************************************************************)
metadata_indicators == <<
    <<"Y","o","u"," ","a","r","e"," ","g","p","t","-">>,
    <<"Y","o","u"," ","a","r","e"," ","c","l","a","u","d","e","-">>,
    <<"Y","o","u"," ","a","r","e"," ","r","u","n","n","i","n","g"," ","a","s">>,
    <<"i","n","t","e","r","a","c","t","i","v","e"," ","C","L","I"," ","c","o","d","i","n","g"," ","a","g","e","n","t">>,
    <<"P","l","a","n"," ","m","o","d","e"," ","i","s"," ","a","c","t","i","v","e">> >>
metadata_tags == <<
    <<"<","u","s","e","r","_","i","n","f","o",">">>,
    <<"<","r","u","l","e","s",">">>,
    <<"<","s","y","s","t","e","m","_","r","e","m","i","n","d","e","r",">">>,
    <<"<","a","l","w","a","y","s","_","a","p","p","l","i","e","d">> >>
UserQueryOpen == <<"<","u","s","e","r","_","q","u","e","r","y",">">>
UserQueryClose == <<"<","/","u","s","e","r","_","q","u","e","r","y",">">>
SystemReminderOpen == <<"<","s","y","s","t","e","m","_","r","e","m","i","n","d","e","r",">">>
SystemReminderClose == <<"<","/","s","y","s","t","e","m","_","r","e","m","i","n","d","e","r",">">>
MinTextLen == 10
MaxContentLen == 2000
MetadataMaxLen == 500

_is_mostly_metadata(text) ==
    IF Len(text) > MetadataMaxLen THEN FALSE
    ELSE LET text_lower == lower(text)
         IN  \E k \in DOMAIN metadata_indicators :
                contains(text_lower, lower(metadata_indicators[k]))

\* A reading of list content that takes the text of every dict part.
_extract_text_content_all(content) ==
    IF content.kind = "str" THEN content.text
    ELSE IF content.kind = "list"
    THEN join(<<" ">>,
              LET texts == SelectSeq(content.parts, LAMBDA item : item.isdict)
              IN  [i \in 1..Len(texts) |-> texts[i].text])
    ELSE <<>>

\* content: [kind: "none" | "str" | "list" | "other", text, parts]; a part is
\* [isdict, type, text].
_extract_text_content(content) ==
    IF content.kind = "str" THEN content.text
    ELSE IF content.kind = "list"
    THEN join(<<" ">>,
              LET texts == SelectSeq(content.parts,
                                     LAMBDA item : item.isdict /\ item.type # "reasoning"
                                                   /\ item.type = "text")
              IN  [i \in 1..Len(texts) |-> texts[i].text])
    ELSE <<>>

\* A reading of user text that looks at the metadata tags before the span.
_extract_user_query_tags_first(text) ==
    IF \E k \in DOMAIN metadata_tags : startswith(strip(text), metadata_tags[k])
    THEN <<>>
    ELSE LET open  == find(text, UserQueryOpen, 1)
             close == IF open = 0 THEN 0
                      ELSE find(text, UserQueryClose, open + Len(UserQueryOpen))
         IN  IF open # 0 /\ close # 0
             THEN strip(SubSeq(text, open + Len(UserQueryOpen), close - 1))
             ELSE text

\* re.search(r'<user_query>\s*(.*?)\s*</user_query>', text, re.DOTALL): the
\* leftmost opening tag that a closing tag follows, and the first closing tag
\* after it; group(1) is what lies between, without the whitespace at its ends.
_extract_user_query(text) ==
    LET open  == find(text, UserQueryOpen, 1)
        close == IF open = 0 THEN 0
                 ELSE find(text, UserQueryClose, open + Len(UserQueryOpen))
    IN  IF open # 0 /\ close # 0
        THEN strip(SubSeq(text, open + Len(UserQueryOpen), close - 1))
        ELSE IF \E k \in DOMAIN metadata_tags : startswith(strip(text), metadata_tags[k])
        THEN <<>>
        ELSE IF contains(text, SystemReminderOpen) /\ contains(text, SystemReminderClose)
        THEN strip(SubSeq(text, rfind(text, SystemReminderClose) + Len(SystemReminderClose),
                          Len(text)))
        ELSE text

\* Python truthiness of blob_data.get("content")
content_truthy(content) ==
    \/ content.kind = "str" /\ content.text # <<>>
    \/ content.kind = "list" /\ content.parts # <<>>
    \/ content.kind = "other"

\* An extraction that treats every role alike.
extract_one_any_role(blob_data) ==
    IF ~blob_data.isdict THEN <<>>
    ELSE IF blob_data.role = "" \/ ~content_truthy(blob_data.content) THEN <<>>
    ELSE LET text == _extract_text_content(blob_data.content)
         IN  IF text = <<>> \/ Len(strip(text)) < MinTextLen THEN <<>>
             ELSE LET user_query == _extract_user_query(text)
                      final == IF blob_data.role = "user" THEN user_query ELSE text
                  IN  IF blob_data.role = "user"
                         /\ (user_query = <<>> \/ Len(strip(user_query)) < MinTextLen)
                      THEN <<>>
                      ELSE IF _is_mostly_metadata(final) THEN <<>>
                      ELSE << [role |-> blob_data.role,
                               content |-> prefix(final, MaxContentLen)] >>

\* An extraction that keeps the whole text.
extract_one_uncut(blob_data) ==
    IF ~blob_data.isdict THEN <<>>
    ELSE IF blob_data.role = "" \/ ~content_truthy(blob_data.content) THEN <<>>
    ELSE IF blob_data.role = "system" THEN <<>>
    ELSE LET text == _extract_text_content(blob_data.content)
         IN  IF text = <<>> \/ Len(strip(text)) < MinTextLen THEN <<>>
             ELSE LET user_query == _extract_user_query(text)
                      final == IF blob_data.role = "user" THEN user_query ELSE text
                  IN  IF blob_data.role = "user"
                         /\ (user_query = <<>> \/ Len(strip(user_query)) < MinTextLen)
                      THEN <<>>
                      ELSE IF _is_mostly_metadata(final) THEN <<>>
                      ELSE << [role |-> blob_data.role, content |-> final] >>

\* What one blob contributes: <<>> or a one-message sequence.
extract_one(blob_data) ==
    IF ~blob_data.isdict THEN <<>>
    ELSE IF blob_data.role = "" \/ ~content_truthy(blob_data.content) THEN <<>>
    ELSE IF blob_data.role = "system" THEN <<>>
    ELSE LET text == _extract_text_content(blob_data.content)
         IN  IF text = <<>> \/ Len(strip(text)) < MinTextLen THEN <<>>
             ELSE LET user_query == _extract_user_query(text)
                      final == IF blob_data.role = "user" THEN user_query ELSE text
                  IN  IF blob_data.role = "user"
                         /\ (user_query = <<>> \/ Len(strip(user_query)) < MinTextLen)
                      THEN <<>>
                      ELSE IF _is_mostly_metadata(final) THEN <<>>
                      ELSE << [role |-> blob_data.role,
                               content |-> prefix(final, MaxContentLen)] >>


(***************************************************************************)
(* summarize.py: the summary engine.                                       *)
(***************************************************************************)
\* config.summary_max_words
summary_max_words == 70
\* the character budget build_summary_prompt gives _trim_json_messages
PromptMaxChars == 6000
TrimKeepChars == 200
TrimMarker == <<".",".","."," ","[","t","r","i","m","m","e","d","]">>
Ellipsis == <<".",".",".">>
MinSummaryWords == 10
MinAlphaChars == 50
MinContentChars == 100

word_count(text) == Len(split(text))

truncate_to_words(text, max_words) ==
    LET words == split(text)
    IN  IF Len(words) <= max_words THEN text
        ELSE join(<<" ">>, slice_to(words, max_words)) \o Ellipsis

\* len(json.dumps(s)) - 2 for a str of the model's characters: the quote, the
\* backslash and the control characters are written as two characters.
json_escaped_len(s) ==
    Len(s) + Cardinality({i \in DOMAIN s : s[i] \in {"\"", "\\", "\n", "\t"}})
\* len(json.dumps(msg)) of {"role": ..., "content": ...}
json_msg_len(msg) == 27 + Len(msg.role) + json_escaped_len(msg.content)

RECURSIVE trim_from(_, _, _)
trim_from(messages, total, max_chars) ==
    IF messages = <<>> THEN <<>>
    ELSE LET msg == messages[1]
         IN  IF total + json_msg_len(msg) > max_chars
             THEN IF Len(msg.content) > TrimKeepChars
                  THEN << [msg EXCEPT !.content = prefix(msg.content, TrimKeepChars) \o TrimMarker] >>
                  ELSE <<>>
             ELSE <<msg>> \o trim_from(Tail(messages), total + json_msg_len(msg), max_chars)
_trim_json_messages(messages, max_chars) == trim_from(messages, 0, max_chars)

\* A prompt that leaves the existing summary out.
build_summary_prompt_fresh(messages, max_words, existing_summary) ==
    [ shape            |-> "fresh",
      max_words        |-> max_words,
      existing_summary |-> NoneText,
      messages         |-> _trim_json_messages(messages, PromptMaxChars) ]

\* The prompt, by its shape and the parts that vary: the update shape holds the
\* existing summary and the new messages, the fresh shape the messages alone.
build_summary_prompt(messages, max_words, existing_summary) ==
    [ shape            |-> IF truthy(existing_summary) THEN "update" ELSE "fresh",
      max_words        |-> max_words,
      existing_summary |-> IF truthy(existing_summary) THEN existing_summary ELSE NoneText,
      messages         |-> _trim_json_messages(messages, PromptMaxChars) ]

\* str(n)
Digits == <<"0","1","2","3","4","5","6","7","8","9">>
RECURSIVE str_nat(_)
str_nat(n) == IF n < 10 THEN <<Digits[n + 1]>> ELSE str_nat(n \div 10) \o <<Digits[(n % 10) + 1]>>
str_int(n) == IF n < 0 THEN <<"-">> \o str_nat(0 - n) ELSE str_nat(n)

\* json.dumps of a str of the model's characters, without the quotes around it.
json_escape_char(c) ==
    IF c = "\"" THEN <<"\\", "\"">>
    ELSE IF c = "\\" THEN <<"\\", "\\">>
    ELSE IF c = "\n" THEN <<"\\", "n">>
    ELSE IF c = "\t" THEN <<"\\", "t">>
    ELSE <<c>>
RECURSIVE json_escape(_)
json_escape(s) ==
    IF s = <<>> THEN <<>>
    ELSE IF Len(s) = 1 THEN json_escape_char(s[1])
    ELSE json_escape(SubSeq(s, 1, Len(s) \div 2))
         \o json_escape(SubSeq(s, Len(s) \div 2 + 1, Len(s)))
\* The characters of a role.
role_text(role) ==
    IF role = "user" THEN <<"u","s","e","r">>
    ELSE IF role = "assistant" THEN <<"a","s","s","i","s","t","a","n","t">>
    ELSE IF role = "system" THEN <<"s","y","s","t","e","m">>
    ELSE <<>>
\* json.dumps(msg, indent=2) of one message, as an item of a list.
json_dumps_message(msg) ==
    <<" "," ","{","\n"," "," "," "," ","\"","r","o","l","e","\"",":"," ","\"">> \o json_escape(role_text(msg.role))
    \o <<"\"",",","\n"," "," "," "," ","\"","c","o","n","t","e","n","t","\"",":"," ","\"">> \o json_escape(msg.content) \o <<"\"","\n"," "," ","}">>
\* json.dumps(messages, indent=2)
json_dumps(messages) ==
    IF messages = <<>> THEN <<"[","]">>
    ELSE <<"[","\n">>
         \o join(<<",","\n">>, [i \in 1..Len(messages) |-> json_dumps_message(messages[i])])
         \o <<"\n","]">>

\* A fresh prompt whose first line asks for a digest.
prompt_text_reworded(prompt) ==
    <<"W","r","i","t","e"," ","a"," ","d","i","g","e","s","t"," ","o","f"," ","t","h","i","s"," ","c","o","n","v","e","r","s","a","t","i","o","n"," ","i","n"," ">> \o str_int(prompt.max_words)
    \o <<" ","w","o","r","d","s"," ","o","r"," ","l","e","s","s",".","\n","\n","M","e","s","s","a","g","e","s",":","\n">> \o json_dumps(prompt.messages)

\* The text build_summary_prompt returns, lines 29-57.
prompt_text(prompt) ==
    IF prompt.shape = "update"
    THEN <<"U","p","d","a","t","e"," ","t","h","i","s"," ","c","h","a","t"," ","s","u","m","m","a","r","y"," ","w","i","t","h"," ","n","e","w"," ","m","e","s","s","a","g","e","s","."," ","M","a","x"," ">> \o str_int(prompt.max_words)
         \o <<" ","w","o","r","d","s",".","\n","\n","E","X","I","S","T","I","N","G"," ","S","U","M","M","A","R","Y",":","\n">> \o prompt.existing_summary.text
         \o <<"\n","\n","N","E","W"," ","M","E","S","S","A","G","E","S",":","\n">> \o json_dumps(prompt.messages)
         \o <<"\n","\n","C","r","e","a","t","e"," ","a","n"," ","u","p","d","a","t","e","d"," ","s","u","m","m","a","r","y"," ","i","n","c","o","r","p","o","r","a","t","i","n","g"," ","t","h","e"," ","n","e","w"," ","c","o","n","t","e","n","t","."," ","F","o","c","u","s"," ","o","n"," ","t","a","s","k","s",","," ","t","e","c","h","n","o","l","o","g","i","e","s",","," ","a","n","d"," ","o","u","t","c","o","m","e","s",".","\n","O","u","t","p","u","t"," ","O","N","L","Y"," ","t","h","e"," ","u","p","d","a","t","e","d"," ","s","u","m","m","a","r","y",".">>
    ELSE <<"S","u","m","m","a","r","i","z","e"," ","t","h","i","s"," ","c","o","d","i","n","g"," ","c","h","a","t"," ","i","n"," ">> \o str_int(prompt.max_words)
         \o <<" ","w","o","r","d","s"," ","o","r"," ","l","e","s","s",".","\n","\n","F","O","C","U","S"," ","O","N",":","\n","-"," ","T","h","e"," ","s","p","e","c","i","f","i","c"," ","t","a","s","k","/","p","r","o","b","l","e","m"," ","t","h","e"," ","u","s","e","r"," ","w","a","n","t","e","d"," ","t","o"," ","s","o","l","v","e","\n","-"," ","T","e","c","h","n","o","l","o","g","i","e","s",","," ","f","r","a","m","e","w","o","r","k","s",","," ","o","r"," ","f","i","l","e","s"," ","i","n","v","o","l","v","e","d","\n","-"," ","K","e","y"," ","o","u","t","c","o","m","e","s"," ","o","r"," ","s","o","l","u","t","i","o","n","s"," ","i","m","p","l","e","m","e","n","t","e","d","\n","\n","D","O"," ","N","O","T"," ","I","N","C","L","U","D","E",":","\n","-"," ","M","o","d","e","l"," ","n","a","m","e","s"," ","(","g","p","t","-","5",","," ","c","l","a","u","d","e",","," ","g","r","o","k",","," ","e","t","c",".",")","\n","-"," ","S","y","s","t","e","m"," ","s","e","t","u","p"," ","i","n","f","o","r","m","a","t","i","o","n","\n","-"," ","G","e","n","e","r","i","c"," ","p","h","r","a","s","e","s"," ","l","i","k","e"," ","\"","u","s","e","r"," ","i","n","i","t","i","a","t","e","d"," ","a"," ","c","h","a","t","\"","\n","\n","I","f"," ","t","h","e"," ","c","o","n","v","e","r","s","a","t","i","o","n"," ","h","a","s"," ","n","o"," ","m","e","a","n","i","n","g","f","u","l"," ","c","o","d","i","n","g"," ","t","a","s","k",","," ","r","e","s","p","o","n","d"," ","w","i","t","h"," ","j","u","s","t",":"," ","\"","N","o"," ","a","c","t","i","o","n","a","b","l","e"," ","c","o","n","t","e","n","t","\"","\n","\n","O","u","t","p","u","t"," ","O","N","L","Y"," ","t","h","e"," ","s","u","m","m","a","r","y",","," ","n","o","t","h","i","n","g"," ","e","l","s","e",".","\n","\n","M","e","s","s","a","g","e","s",":","\n">>
         \o json_dumps(prompt.messages)

\* The environment of a process, as far as the hook handler reads it.
Environ(skip) == [CURLENS_SKIP_HOOKS |-> IF skip THEN "1" ELSE ""]
\* A completion call started with the environment of its caller as it is.
run_agent_env_inherited(environ) == environ
\* run_agent, lines 80-81: env = os.environ.copy(); env["CURLENS_SKIP_HOOKS"] = "1"
run_agent_env(environ) == [environ EXCEPT !.CURLENS_SKIP_HOOKS = "1"]

\* A call that returns stdout whatever the return code.
run_agent_unchecked(outcome) ==
    IF outcome.kind = "exit" THEN SomeText(strip(outcome.stdout)) ELSE NoneText

\* outcome: what subprocess.run did: [kind: "exit", returncode, stdout], or
\* [kind: "timeout" | "not_found" | "subprocess_error"].
run_agent(outcome) ==
    IF outcome.kind = "exit" /\ outcome.returncode = 0
    THEN SomeText(strip(outcome.stdout))
    ELSE NoneText

\* A cut without the test of the length: the words joined, the ellipsis added.
summary_of_unguarded(summary, max_words) ==
    IF truthy(summary)
    THEN SomeText(join(<<" ">>, prefix(split(summary.text), max_words)) \o Ellipsis)
    ELSE summary

\* generate_summary after the call: the result, cut to max_words words.
summary_of(summary, max_words) ==
    IF truthy(summary) /\ word_count(summary.text) > max_words
    THEN SomeText(truncate_to_words(summary.text, max_words))
    ELSE summary
reject_phrases == <<
    <<"n","o"," ","a","c","t","i","o","n","a","b","l","e"," ","c","o","n","t","e","n","t">>,
    <<"n","o"," ","s","p","e","c","i","f","i","c"," ","c","o","d","i","n","g"," ","t","a","s","k">>,
    <<"n","o"," ","m","e","a","n","i","n","g","f","u","l">>,
    <<"u","s","e","r"," ","i","n","i","t","i","a","t","e","d"," ","a"," ","c","h","a","t">>,
    <<"u","s","e","r"," ","s","t","a","r","t","e","d"," ","a"," ","c","h","a","t">>,
    <<"t","e","s","t","i","n","g">>,
    <<"j","u","s","t"," ","s","a","y","i","n","g">>,
    <<"n","o"," ","s","p","e","c","i","f","i","c"," ","t","a","s","k">>,
    <<"e","m","p","t","y"," ","c","o","n","v","e","r","s","a","t","i","o","n">> >>

is_summary_actionable(summary) ==
    IF ~truthy(summary) THEN FALSE
    ELSE IF word_count(summary.text) < MinSummaryWords THEN FALSE
    ELSE IF alpha_count(summary.text) < MinAlphaChars THEN FALSE
    ELSE LET lower_text == lower(summary.text)
         IN  ~\E k \in DOMAIN reject_phrases : contains(lower_text, reject_phrases[k])

meta_indicators == <<
    <<"S","u","m","m","a","r","i","z","e"," ","t","h","i","s"," ","c","o","d","i","n","g"," ","c","h","a","t"," ","i","n">>,
    <<"U","p","d","a","t","e"," ","t","h","i","s"," ","c","h","a","t"," ","s","u","m","m","a","r","y"," ","w","i","t","h"," ","n","e","w"," ","m","e","s","s","a","g","e","s">>,
    <<"r","a","n","k"," ","t","h","e","s","e"," ","c","h","a","t"," ","s","u","m","m","a","r","i","e","s">>,
    <<"O","u","t","p","u","t"," ","O","N","L","Y"," ","t","h","e"," ","s","u","m","m","a","r","y">>,
    <<"N","o"," ","a","c","t","i","o","n","a","b","l","e"," ","c","o","n","t","e","n","t">> >>

is_curlens_meta_chat(content) ==
    LET content_lower == lower(content)
    IN  \E k \in DOMAIN meta_indicators : contains(content_lower, lower(meta_indicators[k]))

RECURSIVE total_content(_)
total_content(messages) ==
    IF messages = <<>> THEN <<>>
    ELSE messages[1].content \o total_content(Tail(messages))

\* A screen that asks for a message and no indicator, and for no length.
has_meaningful_messages_any_length(messages) ==
    messages # <<>> /\ ~is_curlens_meta_chat(total_content(messages))

has_meaningful_messages(messages) ==
    IF messages = <<>> THEN FALSE
    ELSE IF Len(messages) < 1 THEN FALSE
    ELSE IF is_curlens_meta_chat(total_content(messages)) THEN FALSE
    ELSE IF Len(total_content(messages)) < MinContentChars THEN FALSE
    ELSE IF alpha_count(total_content(messages)) < MinAlphaChars THEN FALSE
    ELSE TRUE

(***************************************************************************)
(* The blob payloads of the stores.                                        *)
(***************************************************************************)
UserText == <<"<","u","s","e","r","_","i","n","f","o",">","O","S",":"," ","l","i","n","u","x","<","/","u","s","e","r","_","i","n","f","o",">","\n","<","u","s","e","r","_","q","u","e","r","y",">","\n","F","i","x"," ","t","h","e"," ","l","o","g","i","n"," ","b","u","g"," ","i","n"," ","a","u","t","h",".","p","y","\n","<","/","u","s","e","r","_","q","u","e","r","y",">">>
AssistantText == <<"I"," ","t","r","a","c","e","d"," ","t","h","e"," ","l","o","g","i","n"," ","f","a","i","l","u","r","e"," ","t","o"," ","t","h","e"," ","p","a","s","s","w","o","r","d"," ","c","h","e","c","k"," ","i","n"," ","a","u","t","h",".","p","y",":"," ","t","h","e"," ","s","t","o","r","e","d"," ","h","a","s","h"," ","u","s","e","d"," ","b","c","r","y","p","t"," ","w","h","i","l","e"," ","t","h","e"," ","c","o","m","p","a","r","i","s","o","n"," ","u","s","e","d"," ","s","h","a","2","5","6",","," ","I"," ","c","h","a","n","g","e","d"," ","v","e","r","i","f","y"," ","t","o"," ","b","c","r","y","p","t",".">>
ReasoningText == <<"t","h","i","n","k","i","n","g"," ","a","b","o","u","t"," ","h","a","s","h","e","s">>
SystemText == <<"Y","o","u"," ","a","r","e"," ","g","p","t","-","5"," ","r","u","n","n","i","n","g"," ","a","s"," ","a","n"," ","i","n","t","e","r","a","c","t","i","v","e"," ","C","L","I"," ","c","o","d","i","n","g"," ","a","g","e","n","t",".">>

StrContent(t) == [kind |-> "str", text |-> t, parts |-> <<>>]
ListContent(ps) == [kind |-> "list", text |-> <<>>, parts |-> ps]
Part(ty, t) == [isdict |-> TRUE, type |-> ty, text |-> t]
\* A row's data: JSON text that parses to a dict, JSON-looking text that does not
\* parse, or bytes that do not start with '{'.
JsonDict(role, content) == [starts_brace |-> TRUE, utf8 |-> TRUE, parses |-> TRUE, isdict |-> TRUE,
                            role |-> role, content |-> content]
UserBlob == JsonDict("user", StrContent(UserText))
AssistantBlob == JsonDict("assistant",
                          ListContent(<<Part("reasoning", ReasoningText),
                                        Part("text", AssistantText)>>))
SystemBlob == JsonDict("system", StrContent(SystemText))
Payloads == {UserBlob, AssistantBlob, SystemBlob}


\* More payloads, for the extractor applied on its own: texts with and without
\* a <user_query> span and a leading metadata tag, list content with parts of
\* every type, and each of them under every role.
PlainText == <<"P","l","e","a","s","e"," ","r","e","n","a","m","e"," ","t","h","e"," ","c","o","n","f","i","g"," ","l","o","a","d","e","r"," ","m","o","d","u","l","e">>
TagOnlyText == <<"<","u","s","e","r","_","i","n","f","o",">","O","S",":"," ","l","i","n","u","x",","," ","s","h","e","l","l",":"," ","b","a","s","h","<","/","u","s","e","r","_","i","n","f","o",">">>
IndentedTagText == <<" ","\n","<","r","u","l","e","s",">","a","l","w","a","y","s"," ","w","r","i","t","e"," ","t","h","e"," ","t","e","s","t","s"," ","f","i","r","s","t","<","/","r","u","l","e","s",">">>
ReminderText == <<"<","s","y","s","t","e","m","_","r","e","m","i","n","d","e","r",">","b","e"," ","b","r","i","e","f","<","/","s","y","s","t","e","m","_","r","e","m","i","n","d","e","r",">","\n","A","d","d"," ","a"," ","r","e","t","r","y"," ","t","o"," ","t","h","e"," ","u","p","l","o","a","d","e","r">>
LateReminderText == <<"A","d","d"," ","a"," ","r","e","t","r","y"," ","<","s","y","s","t","e","m","_","r","e","m","i","n","d","e","r",">","b","e"," ","b","r","i","e","f","<","/","s","y","s","t","e","m","_","r","e","m","i","n","d","e","r",">"," ","t","o"," ","t","h","e"," ","u","p","l","o","a","d","e","r">>
OpenOnlyText == <<"<","u","s","e","r","_","q","u","e","r","y",">","a"," ","q","u","e","r","y"," ","t","h","a","t"," ","i","s"," ","n","e","v","e","r"," ","c","l","o","s","e","d">>
TwoSpansText == <<"<","r","u","l","e","s",">","r","<","/","r","u","l","e","s",">","<","u","s","e","r","_","q","u","e","r","y",">"," ","f","i","r","s","t"," ","q","u","e","s","t","i","o","n"," ","<","/","u","s","e","r","_","q","u","e","r","y",">","<","u","s","e","r","_","q","u","e","r","y",">","s","e","c","o","n","d"," ","o","n","e","<","/","u","s","e","r","_","q","u","e","r","y",">">>
EmptySpanText == <<"<","u","s","e","r","_","i","n","f","o",">","O","S","<","/","u","s","e","r","_","i","n","f","o",">","<","u","s","e","r","_","q","u","e","r","y",">"," ","\n"," ","<","/","u","s","e","r","_","q","u","e","r","y",">">>
ToolText == <<"r","a","n"," ","t","h","e"," ","t","e","s","t"," ","s","u","i","t","e">>
SecondText == <<"a","n","d"," ","t","h","e","n"," ","I"," ","u","p","d","a","t","e","d"," ","t","h","e"," ","u","n","i","t"," ","t","e","s","t","s">>
RECURSIVE repeat(_, _)
repeat(s, n) == IF n = 0 THEN <<>> ELSE s \o repeat(s, n - 1)
\* A text longer than the extractor keeps, and one shorter than it takes.
LongText == repeat(<<"R","e","f","a","c","t","o","r"," ","t","h","e"," ","u","p","l","o","a","d","e","r"," ","a","n","d"," ","i","t","s"," ","t","e","s","t","s","."," ">>, 60)
ShortText == <<"f","i","x"," ","i","t">>
NotADict == [isdict |-> FALSE, type |-> "", text |-> <<"a"," ","b","a","r","e"," ","s","t","r","i","n","g"," ","i","t","e","m">>]
ProbeTexts == {UserText, PlainText, TagOnlyText, IndentedTagText, ReminderText,
               LateReminderText, OpenOnlyText, TwoSpansText, EmptySpanText, SystemText,
               LongText, ShortText}
ProbeContents ==
    {StrContent(t) : t \in ProbeTexts} \cup
    { ListContent(<<>>),
      ListContent(<<Part("reasoning", ReasoningText)>>),
      ListContent(<<Part("reasoning", ReasoningText), Part("reasoning", AssistantText)>>),
      ListContent(<<Part("text", PlainText)>>),
      ListContent(<<Part("text", PlainText), Part("reasoning", ReasoningText), Part("text", SecondText)>>),
      ListContent(<<Part("text", SecondText), Part("text", PlainText)>>),
      ListContent(<<Part("tool-call", ToolText), NotADict, Part("text", UserText)>>),
      ListContent(<<Part("text", <<>>), Part("text", SecondText)>>),
      [kind |-> "none", text |-> <<>>, parts |-> <<>>],
      [kind |-> "other", text |-> <<>>, parts |-> <<>>] }
Roles == {"user", "assistant", "system", ""}
ProbePayloads == {JsonDict(r, c) : r \in Roles, c \in ProbeContents}
                 \cup {[starts_brace |-> TRUE, utf8 |-> TRUE, parses |-> TRUE, isdict |-> FALSE,
                        role |-> "", content |-> StrContent(PlainText)]}

\* What the completion call's process can do.
GoodSummary == <<"F","i","x","e","d"," ","a"," ","l","o","g","i","n"," ","b","u","g"," ","i","n"," ","a","u","t","h",".","p","y"," ","b","y"," ","c","o","r","r","e","c","t","i","n","g"," ","a"," ","p","a","s","s","w","o","r","d"," ","h","a","s","h","i","n","g"," ","m","i","s","m","a","t","c","h",".">>
NoActionSummary == <<"N","o"," ","a","c","t","i","o","n","a","b","l","e"," ","c","o","n","t","e","n","t">>
CodeWord == <<"c","o","d","e"," ">>
\* more than summary_max_words words
LongSummary == repeat(CodeWord, summary_max_words + 1) \o <<"e","n","d">>
Exit(rc, out) == [kind |-> "exit", returncode |-> rc, stdout |-> out]
Outcomes == { Exit(0, GoodSummary \o <<"\n">>),
              Exit(0, NoActionSummary \o <<"\n">>),
              Exit(0, LongSummary \o <<"\n">>),
              Exit(1, <<>>),
              [kind |-> "timeout", returncode |-> 0, stdout |-> <<>>],
              [kind |-> "not_found", returncode |-> 0, stdout |-> <<>>] }


(***************************************************************************)
(* The values of the text functions on the texts of the model, each        *)
(* computed once.                                                          *)
(***************************************************************************)
BoundedSeqs(S, n) == UNION {[1..k -> S] : k \in 0..n}
\* A table is a set of <<argument, value>> pairs.
lookup(table, x) == (CHOOSE p \in table : p[1] = x)[2]
ExtractMemo == {<<d, extract_one(d)>> : d \in Payloads}
ProbeMemo == {<<d, extract_one(d)>> : d \in ProbePayloads}
extract_cached(d) ==
    IF d \in Payloads THEN lookup(ExtractMemo, d)
    ELSE IF d \in ProbePayloads THEN lookup(ProbeMemo, d)
    ELSE extract_one(d)
Messages == UNION {Range(p[2]) : p \in ExtractMemo}
MessageSeqs == BoundedSeqs(Messages, MaxBlobs)
MeaningfulMemo == {<<ms, has_meaningful_messages(ms)>> : ms \in MessageSeqs}
\* A screen that passes any messages.
meaningful_unchecked(ms) == ms # <<>>
meaningful_cached(ms) ==
    IF ms \in MessageSeqs THEN lookup(MeaningfulMemo, ms) ELSE has_meaningful_messages(ms)
AgentMemo == {<<o, run_agent(o)>> : o \in Outcomes}
SummaryMemo == {<<o, summary_of(lookup(AgentMemo, o), summary_max_words)>> : o \in Outcomes}
ActionableMemo == {<<o, is_summary_actionable(lookup(SummaryMemo, o))>> : o \in Outcomes}

\* blobs: a sequence of <<blob_id, blob_data>> rows as [id, data].
RECURSIVE _extract_messages(_)
_extract_messages(blobs) ==
    IF blobs = <<>> THEN <<>>
    ELSE extract_cached(blobs[1].data) \o _extract_messages(Tail(blobs))

\* The summary returned for the outcome of the one completion call.
generate_summary(messages, max_words, existing_summary, outcome) ==
    IF messages = <<>> THEN NoneText
    ELSE IF outcome \in Outcomes /\ max_words = summary_max_words THEN lookup(SummaryMemo, outcome)
    ELSE summary_of(run_agent(outcome), max_words)
\* The completion calls generate_summary makes: none without messages, else one.
generate_summary_calls(messages, max_words, existing_summary, outcome) ==
    IF messages = <<>> THEN <<>>
    ELSE << [ messages |-> messages,
              prompt  |-> build_summary_prompt(messages, max_words, existing_summary),
              outcome |-> outcome,
              result  |-> IF outcome \in Outcomes THEN lookup(AgentMemo, outcome) ELSE run_agent(outcome) ] >>

\* A screen that passes any text.
actionable_unchecked(summary, outcome) == truthy(summary)
actionable_cached(summary, outcome) ==
    IF outcome \in Outcomes /\ summary = lookup(SummaryMemo, outcome)
    THEN lookup(ActionableMemo, outcome)
    ELSE is_summary_actionable(summary)

(***************************************************************************)
(* backfill.py: the folder names of the projects directory and the paths    *)
(* they stand for.  A tree is the set of the directories that exist, each   *)
(* the sequence of its segments; the root is the empty sequence.           *)
(***************************************************************************)
Users == <<"U","s","e","r","s">>
UsersRoot == <<"/","U","s","e","r","s">>
\* str.split(sep) for a one-character sep: the parts between the separators,
\* the empty ones included
RECURSIVE split_on(_, _)
split_on(s, sep) ==
    LET hits == {i \in DOMAIN s : s[i] = sep}
    IN  IF hits = {} THEN <<s>>
        ELSE <<SubSeq(s, 1, (CHOOSE i \in hits : \A j \in hits : i <= j) - 1)>>
             \o split_on(SubSeq(s, (CHOOSE i \in hits : \A j \in hits : i <= j) + 1, Len(s)), sep)
\* str.replace(old, new) for one-character old and new
replace(s, old, new) == SubSeq([i \in 1..Len(s) |-> IF s[i] = old THEN new ELSE s[i]], 1, Len(s))
\* os.path.join(base, segment)
os_path_join(base, segment) ==
    IF startswith(segment, <<"/">>) THEN segment
    ELSE IF base = <<>> \/ base[Len(base)] = "/" THEN base \o segment
    ELSE base \o <<"/">> \o segment
\* os.path.isdir(path) for an absolute path: the directory of its non-empty
\* components exists (slashes that follow one another, or end the path, count
\* once).
isdir(path, tree) ==
    /\ startswith(path, <<"/">>)
    /\ SelectSeq(split_on(path, "/"), LAMBDA part : part # <<>>) \in tree

\* A search that takes the first candidate without asking whether it exists.
try_segments_unchecked(base, remaining_parts, i, tree) ==
    IF i > Len(remaining_parts) THEN NoneText
    ELSE SomeText(os_path_join(base, join(<<"-">>, remaining_parts)))

RECURSIVE _build_path_segments(_, _, _)
\* The loop of _build_path_segments from i on: 1, 2, 3... parts as one segment.
RECURSIVE try_segments(_, _, _, _)
try_segments(base, remaining_parts, i, tree) ==
    IF i > Len(remaining_parts) THEN NoneText
    ELSE LET segment   == join(<<"-">>, SubSeq(remaining_parts, 1, i))
             candidate == os_path_join(base, segment)
             result    == _build_path_segments(candidate,
                                               SubSeq(remaining_parts, i + 1,
                                                      Len(remaining_parts)), tree)
         IN  IF isdir(candidate, tree)
             THEN IF i = Len(remaining_parts) THEN SomeText(candidate)
                  ELSE IF truthy(result) THEN result
                  ELSE try_segments(base, remaining_parts, i + 1, tree)
             ELSE try_segments(base, remaining_parts, i + 1, tree)

_build_path_segments(base, remaining_parts, tree) ==
    IF remaining_parts = <<>>
    THEN IF isdir(base, tree) THEN SomeText(base) ELSE NoneText
    ELSE try_segments(base, remaining_parts, 1, tree)

\* None, or the path.
_resolve_folder_name_to_path(folder_name, tree) ==
    LET simple_path == <<"/">> \o replace(folder_name, "-", "/")
        parts       == split_on(folder_name, "-")
    IN  IF isdir(simple_path, tree) THEN SomeText(simple_path)
        ELSE IF parts[1] = Users /\ Len(parts) > 1
        THEN _build_path_segments(UsersRoot, Tail(parts), tree)
        ELSE NoneText

\* The folder name of a directory: its segments joined by "-".
encode(segments) == join(<<"-">>, segments)
\* The absolute path of a directory.
path_of_segments(segments) == <<"/">> \o join(<<"/">>, segments)

(***************************************************************************)
(* The state.                                                              *)
(***************************************************************************)
VARIABLES
    chats,      \* conversation id -> the rows of the blobs table of its store.db
    summaries,  \* the rows of the summaries table
    clock,      \* the last reading of the clock, in milliseconds
    lastPass,   \* what the last operation read, called and wrote
    contrib,    \* conversation id -> ids of the blobs whose messages are in its summary
    folded,     \* conversation id -> ids ever written as covered
    created0,   \* conversation id -> created_at of its first insert, 0 before it
    probe       \* one application of a function of the code: its arguments, its result

\* The stores and their history.
storeVars == <<chats, summaries, clock, lastPass, contrib, folded, created0>>
vars == <<chats, summaries, clock, lastPass, contrib, folded, created0, probe>>

\* The conversation ids hook payloads and summary rows carry.
ConvIds == {"c1", "c2"}
\* The ids the chat tool gives the blobs of a store, in the order it writes them.
BlobIdPool == <<"A", "B", "C", "D", "E", "F">>

(***************************************************************************)
(* chat_store.py                                                           *)
(***************************************************************************)
\* The store.db of a conversation is found when the chat tool has persisted it.
find_chat_db_path(conversation_id) == conversation_id \in DOMAIN chats

\* A listing that yields the newest row alone.
list_json_blobs_newest(rows, read_ok) ==
    IF ~read_ok \/ rows = <<>> THEN <<>> ELSE <<rows[Len(rows)]>>

\* fetchall decodes CAST(data AS TEXT) of every row the WHERE clause keeps:
\* a row that starts with '{' and is not UTF-8 makes it raise
\* sqlite3.OperationalError.
fetch_raises(rows) ==
    \E i \in DOMAIN rows : rows[i].data.starts_brace /\ ~rows[i].data.utf8

\* The rows whose data starts with '{' and parses, as <<id, parsed>>, in the
\* order the table yields them; [] when sqlite raises (lines 72-73), be it on
\* the file (read_ok false) or on the text of a row.
list_json_blobs(rows, read_ok) ==
    IF ~read_ok \/ fetch_raises(rows) THEN <<>>
    ELSE SelectSeq(rows, LAMBDA row : row.data.starts_brace /\ row.data.parses)

\* What read_meta returns: None, or the meta record.
NoMeta == [isNone |-> TRUE, name |-> "", createdAt |-> 0]
Meta(name, createdAt) == [isNone |-> FALSE, name |-> name, createdAt |-> createdAt]

(***************************************************************************)
(* db.py                                                                   *)
(***************************************************************************)
rows_of(table, conversation_id) == {r \in table : r.conversation_id = conversation_id}

\* A lookup that finds no row.
get_summary_state_missing(table, conversation_id) == {}

\* None is the empty set, a row the singleton of it.
get_summary_state(table, conversation_id) == rows_of(table, conversation_id)

\* An upsert whose update leaves blob_ids_json as it was.
upsert_summary_stale_ids(table, conversation_id, summary_text, blob_ids, chat_name, chat_directory, now) ==
    IF rows_of(table, conversation_id) = {}
    THEN table \cup {[ conversation_id |-> conversation_id,
                       summary_text    |-> summary_text,
                       blob_ids_json   |-> blob_ids,
                       created_at      |-> now,
                       updated_at      |-> now,
                       chat_name       |-> chat_name,
                       chat_directory  |-> chat_directory ]}
    ELSE { IF r.conversation_id = conversation_id
           THEN [r EXCEPT !.summary_text   = summary_text,
                          !.updated_at     = now,
                          !.chat_name      = chat_name,
                          !.chat_directory = chat_directory]
           ELSE r : r \in table }
\* An upsert that replaces the row, created_at included.
upsert_summary_replace(table, conversation_id, summary_text, blob_ids, chat_name, chat_directory, now) ==
    {r \in table : r.conversation_id # conversation_id}
    \cup {[ conversation_id |-> conversation_id,
            summary_text    |-> summary_text,
            blob_ids_json   |-> blob_ids,
            created_at      |-> now,
            updated_at      |-> now,
            chat_name       |-> chat_name,
            chat_directory  |-> chat_directory ]}

\* A statement that replaces the row on conflict, created_at included.
insert_or_replace(table, conversation_id, summary_text, blob_ids, created_at, now, chat_name, chat_directory) ==
    {r \in table : r.conversation_id # conversation_id}
    \cup {[ conversation_id |-> conversation_id,
            summary_text    |-> summary_text,
            blob_ids_json   |-> blob_ids,
            created_at      |-> created_at,
            updated_at      |-> now,
            chat_name       |-> chat_name,
            chat_directory  |-> chat_directory ]}

\* INSERT ... ON CONFLICT(conversation_id) DO UPDATE SET ..., lines 64-78, as
\* the one statement sqlite runs: created_at is the value bound by the caller
\* and is used only when there is no row.
insert_on_conflict(table, conversation_id, summary_text, blob_ids, created_at, now, chat_name, chat_directory) ==
    IF rows_of(table, conversation_id) = {}
    THEN table \cup {[ conversation_id |-> conversation_id,
                       summary_text    |-> summary_text,
                       blob_ids_json   |-> blob_ids,
                       created_at      |-> created_at,
                       updated_at      |-> now,
                       chat_name       |-> chat_name,
                       chat_directory  |-> chat_directory ]}
    ELSE { IF r.conversation_id = conversation_id
           THEN [r EXCEPT !.summary_text   = summary_text,
                          !.blob_ids_json  = blob_ids,
                          !.updated_at     = now,
                          !.chat_name      = chat_name,
                          !.chat_directory = chat_directory]
           ELSE r : r \in table }

\* SELECT created_at ..., lines 60-62: row[0] if row else now
select_created_at(table, conversation_id, now) ==
    IF rows_of(table, conversation_id) # {}
    THEN (CHOOSE r \in rows_of(table, conversation_id) : TRUE).created_at
    ELSE now

upsert_summary(table, conversation_id, summary_text, blob_ids, chat_name, chat_directory, now) ==
    LET row        == rows_of(table, conversation_id)
        created_at == IF row # {} THEN (CHOOSE r \in row : TRUE).created_at ELSE now
    IN  IF row = {}
        THEN table \cup {[ conversation_id |-> conversation_id,
                           summary_text    |-> summary_text,
                           blob_ids_json   |-> blob_ids,
                           created_at      |-> created_at,
                           updated_at      |-> now,
                           chat_name       |-> chat_name,
                           chat_directory  |-> chat_directory ]}
        ELSE { IF r.conversation_id = conversation_id
               THEN [r EXCEPT !.summary_text   = summary_text,
                              !.blob_ids_json  = blob_ids,
                              !.updated_at     = now,
                              !.chat_name      = chat_name,
                              !.chat_directory = chat_directory]
               ELSE r : r \in table }

(***************************************************************************)
(* hooks/session_end.py: main.                                             *)
(***************************************************************************)
\* Jan 1, 2026 as the source has it, in seconds: the source's 1767205800000 ms
\* is wider than the integers of the checker, and only its order matters.
JAN_2026_MS == 1767205800

ids_of(blobs) == [i \in 1..Len(blobs) |-> blobs[i].id]
\* The ids of the blobs that _extract_messages makes a message of.
source_ids(blobs) == {blobs[i].id : i \in {j \in DOMAIN blobs : extract_cached(blobs[j].data) # <<>>}}

\* A pass that ends before the stores are read.
QuietPass(kind, gate, conv) ==
    [ kind |-> kind, gate |-> gate, conv |-> conv, state |-> "none",
      blob_ids |-> <<>>, new_blob_ids |-> {}, messages |-> <<>>, calls |-> <<>>,
      exit |-> gate, writes |-> <<>>, continues |-> IF kind = "hook" THEN 1 ELSE 0,
      before |-> summaries, folded_before |-> folded ]

\* One completion call of a pass.
Call(conv, input_ids, call) ==
    [ conv |-> conv, input_ids |-> input_ids, messages |-> call.messages,
      prompt |-> call.prompt,
      outcome |-> call.outcome, result |-> call.result ]

\* A diff that takes every current id for new.
new_blob_ids_all(existing_ids, current_ids) == current_ids

\* new_blob_ids = current_ids - existing_ids
new_blob_ids(existing_ids, current_ids) == current_ids \ existing_ids

\* The pass of an invocation that got past the gates.
HookPass(conversation_id, state, blob_ids, new_ids, messages, calls, exit, writes) ==
    [ kind |-> "hook", gate |-> "none", conv |-> conversation_id, state |-> state,
      blob_ids |-> blob_ids, new_blob_ids |-> new_ids, messages |-> messages,
      calls |-> calls, exit |-> exit, writes |-> writes, continues |-> 1,
      before |-> summaries, folded_before |-> folded ]

\* main, lines 141-160: the screen of the summary of the one call, and the upsert.
main_store(conversation_id, chat_name, chat_directory, outcome, now, blobs, new_ids, state, input, messages, summary, calls) ==
    IF ~actionable_cached(summary, outcome)
    THEN HookPass(conversation_id, state, ids_of(blobs), new_ids, messages,
                  <<Call(conversation_id, ids_of(input), calls[1])>>, "not_actionable", <<>>)
    ELSE HookPass(conversation_id, state, ids_of(blobs), new_ids, messages,
                  <<Call(conversation_id, ids_of(input), calls[1])>>, "written",
                  << [ conv |-> conversation_id,
                       summary_text |-> summary.text,
                       blob_ids |-> ids_of(blobs),
                       chat_name |-> chat_name,
                       chat_directory |-> chat_directory,
                       contributors |-> source_ids(input),
                       now |-> now ] >>)

\* main, lines 131-146: the screens of the messages, and generate_summary.
main_screen(conversation_id, chat_name, chat_directory, outcome, now, blobs, new_ids, state, existing_summary, input, messages) ==
    IF messages = <<>>
    THEN HookPass(conversation_id, state, ids_of(blobs), new_ids, <<>>, <<>>, "no_messages", <<>>)
    ELSE IF ~meaningful_cached(messages)
    THEN HookPass(conversation_id, state, ids_of(blobs), new_ids, messages, <<>>,
                  "not_meaningful", <<>>)
    ELSE main_store(conversation_id, chat_name, chat_directory, outcome, now, blobs, new_ids,
                    state, input, messages,
                    generate_summary(messages, summary_max_words, existing_summary, outcome),
                    generate_summary_calls(messages, summary_max_words, existing_summary,
                                           outcome))

\* An extraction that does not return when nothing is new.
main_extract_rerun(conversation_id, chat_name, chat_directory, outcome, now, blobs, existing, new_ids) ==
    main_screen(conversation_id, chat_name, chat_directory, outcome, now, blobs, new_ids,
                IF existing = {} THEN "first-summary" ELSE "incremental-update",
                IF existing = {} THEN NoneText
                ELSE SomeText((CHOOSE r \in existing : TRUE).summary_text),
                IF new_ids # {} THEN SelectSeq(blobs, LAMBDA b : b.id \in new_ids)
                ELSE blobs,
                _extract_messages(IF new_ids # {}
                                  THEN SelectSeq(blobs, LAMBDA b : b.id \in new_ids)
                                  ELSE blobs))

\* main, lines 113-129: the return when nothing is new, else the extraction from
\* the new blobs, or from all of them when there is no record.
main_extract(conversation_id, chat_name, chat_directory, outcome, now, blobs, existing, new_ids) ==
    IF existing # {} /\ new_ids = {}
    THEN HookPass(conversation_id, "unchanged", ids_of(blobs), new_ids, <<>>, <<>>,
                  "unchanged", <<>>)
    ELSE main_screen(conversation_id, chat_name, chat_directory, outcome, now, blobs, new_ids,
                     IF existing = {} THEN "first-summary" ELSE "incremental-update",
                     IF existing = {} THEN NoneText
                     ELSE SomeText((CHOOSE r \in existing : TRUE).summary_text),
                     IF new_ids # {} THEN SelectSeq(blobs, LAMBDA b : b.id \in new_ids)
                     ELSE blobs,
                     _extract_messages(IF new_ids # {}
                                       THEN SelectSeq(blobs, LAMBDA b : b.id \in new_ids)
                                       ELSE blobs))

\* main, lines 105-112: the ids the record does not cover.
main_diff(conversation_id, chat_name, chat_directory, outcome, now, blobs, existing) ==
    main_extract(conversation_id, chat_name, chat_directory, outcome, now, blobs, existing,
                 IF existing = {} THEN {}
                 ELSE new_blob_ids(Range((CHOOSE r \in existing : TRUE).blob_ids_json),
                                   Range(ids_of(blobs))))

\* The part of main after the gates, lines 101-164: the blobs of the store and
\* the record of the conversation, then the steps above.
pipeline(conversation_id, chat_name, chat_directory, read_ok, outcome, now) ==
    main_diff(conversation_id, chat_name, chat_directory, outcome, now,
              list_json_blobs(chats[conversation_id], read_ok),
              get_summary_state(summaries, conversation_id))

\* A pass that an exception ends before the stores are read: a traceback and
\* no response.
RaisedPass(kind, gate, conv) ==
    [QuietPass(kind, gate, conv) EXCEPT !.exit = "raised", !.continues = 0]

\* main: the gates in the order of the source, then the pipeline.
\* raw: what stdin holds: [kind: "empty" | "malformed" | "not_object" |
\* "object", conversation_id ("" when missing), workspace_roots]; "not_object"
\* is JSON text of a list, a string, a number or null, on which payload.get
\* raises AttributeError (line 68).
main_pass(env_skip, hooks_enabled, raw, meta, read_ok, outcome, now) ==
    LET conversation_id == raw.conversation_id
        chat_directory  == IF raw.workspace_roots # <<>> THEN raw.workspace_roots[1] ELSE NoneVal
        chat_name       == IF meta.isNone THEN "Unnamed" ELSE meta.name
        created_at      == IF meta.isNone THEN 0 ELSE meta.createdAt
    IN  IF env_skip THEN QuietPass("hook", "skip_hooks", "")
        ELSE IF ~hooks_enabled THEN QuietPass("hook", "disabled", "")
        ELSE IF raw.kind = "empty" THEN QuietPass("hook", "empty_input", "")
        ELSE IF raw.kind = "malformed" THEN QuietPass("hook", "malformed_input", "")
        ELSE IF raw.kind = "not_object" THEN RaisedPass("hook", "not_object", "")
        ELSE IF conversation_id = "" THEN QuietPass("hook", "no_conversation_id", "")
        ELSE IF ~find_chat_db_path(conversation_id)
        THEN QuietPass("hook", "no_chat_db", conversation_id)
        ELSE IF chat_name = "New Agent" /\ created_at >= JAN_2026_MS
        THEN QuietPass("hook", "new_agent", conversation_id)
        ELSE pipeline(conversation_id, chat_name, chat_directory, read_ok, outcome, now)

(***************************************************************************)
(* backfill.py                                                             *)
(***************************************************************************)

\* _process_single_chat, lines 248-260: the screen of the summary, the upsert.
process_summary(conversation_id, workspace_path, chat_name, outcome, now, blobs, summary, calls) ==
    IF ~actionable_cached(summary, outcome)
    THEN [ result |-> "not_actionable", chat_name |-> chat_name,
           calls |-> <<Call(conversation_id, ids_of(blobs), calls[1])>>, writes |-> <<>> ]
    ELSE [ result |-> "success", chat_name |-> chat_name,
           calls |-> <<Call(conversation_id, ids_of(blobs), calls[1])>>,
           writes |-> << [ conv |-> conversation_id,
                           summary_text |-> summary.text,
                           blob_ids |-> ids_of(blobs),
                           chat_name |-> chat_name,
                           chat_directory |-> workspace_path,
                           contributors |-> source_ids(blobs),
                           now |-> now ] >> ]

\* _process_single_chat, lines 236-246: the screens of the messages, and
\* generate_summary with no existing summary.
process_messages(conversation_id, workspace_path, chat_name, outcome, now, blobs, messages) ==
    IF messages = <<>>
    THEN [ result |-> "no_messages", chat_name |-> chat_name, calls |-> <<>>, writes |-> <<>> ]
    ELSE IF ~meaningful_cached(messages)
    THEN [ result |-> "not_meaningful", chat_name |-> chat_name, calls |-> <<>>,
           writes |-> <<>> ]
    ELSE process_summary(conversation_id, workspace_path, chat_name, outcome, now, blobs,
                         generate_summary(messages, summary_max_words, NoneText, outcome),
                         generate_summary_calls(messages, summary_max_words, NoneText,
                                                outcome))

\* lines 231-234
process_blobs(conversation_id, workspace_path, chat_name, outcome, now, blobs) ==
    process_messages(conversation_id, workspace_path, chat_name, outcome, now, blobs,
                     _extract_messages(blobs))

\* (result_status, chat_name), with the completion call and the write it makes.
_process_single_chat(conversation_id, workspace_path, meta, read_ok, outcome, now) ==
    process_blobs(conversation_id, workspace_path,
                  IF meta.isNone THEN "Unnamed" ELSE meta.name, outcome, now,
                  list_json_blobs(chats[conversation_id], read_ok))

\* A selection that does not look up the summary of a chat.
select_to_process_unseen(all_chats, path_of) ==
    SelectSeq(all_chats, LAMBDA c : path_of[c] # NoneVal)

\* The chats of to_process, in order: those with a workspace path and no summary.
select_to_process(all_chats, path_of) ==
    SelectSeq(all_chats, LAMBDA c : path_of[c] # NoneVal
                                    /\ get_summary_state(summaries, c) = {})

\* to_process after "if limit: to_process = to_process[:limit]"
apply_limit(to_process, limit) ==
    IF ~limit.isNone /\ limit.n # 0 THEN slice_to(to_process, limit.n) ELSE to_process

\* result_map.get(result, ("failed", "unknown")), lines 186-199
stat_key(result) ==
    CASE result = "success" -> "processed"
      [] result = "no_messages" -> "skipped_no_messages"
      [] result = "not_meaningful" -> "skipped_not_meaningful"
      [] result = "not_actionable" -> "skipped_not_actionable"
      [] OTHER -> "failed"

\* What one turn of the loop leaves: the counters it incremented, in order,
\* whether the except clause ran, the completion call and the write it made.
Turn(conv, result, raised, counted, calls, writes) ==
    [ conv |-> conv, result |-> result, raised |-> raised, counted |-> counted,
      calls |-> calls, writes |-> writes ]

\* The turn of the loop for a chat whose processing returned r (lines 196-208).
\* fault is what the environment does to the turn: "read" when reading or
\* extracting the blobs raises (a record nested deeper than json.loads
\* recurses, a text part that is not a string), "upsert" when the summary
\* database refuses the write (sqlite3.OperationalError); a meta record whose
\* name is null makes name[:30] raise after the counter of the result.
turn_of(conv, r, fault) ==
    IF fault = "read"
    THEN Turn(conv, "raised", TRUE, <<"failed">>, <<>>, <<>>)
    ELSE IF fault = "upsert" /\ r.writes # <<>>
    THEN Turn(conv, "raised", TRUE, <<"failed">>, r.calls, <<>>)
    ELSE IF r.chat_name = NoneVal
    THEN Turn(conv, r.result, TRUE, <<stat_key(r.result), "failed">>, r.calls, r.writes)
    ELSE Turn(conv, r.result, FALSE, <<stat_key(r.result)>>, r.calls, r.writes)

\* The body of the loop: try ... except Exception.
try_process(conv, workspace_path, meta, read_ok, outcome, fault, now) ==
    turn_of(conv, _process_single_chat(conv, workspace_path, meta, read_ok, outcome, now), fault)

\* A loop that the first exception ends.
RECURSIVE process_all_abort(_, _, _, _, _, _, _)
process_all_abort(to_process, path_of, metas, read_oks, outcomes, faults, now) ==
    IF to_process = <<>> THEN <<>>
    ELSE LET turn == try_process(to_process[1], path_of[to_process[1]], metas[to_process[1]],
                                 read_oks[to_process[1]], outcomes[to_process[1]],
                                 faults[to_process[1]], now)
         IN  IF turn.raised THEN <<turn>>
             ELSE <<turn>> \o process_all_abort(Tail(to_process), path_of, metas, read_oks,
                                                outcomes, faults, now)

\* The loop over to_process, lines 195-208: the turns, in order.
RECURSIVE process_all(_, _, _, _, _, _, _)
process_all(to_process, path_of, metas, read_oks, outcomes, faults, now) ==
    IF to_process = <<>> THEN <<>>
    ELSE << try_process(to_process[1], path_of[to_process[1]], metas[to_process[1]],
                        read_oks[to_process[1]], outcomes[to_process[1]],
                        faults[to_process[1]], now) >>
         \o process_all(Tail(to_process), path_of, metas, read_oks, outcomes, faults, now)

\* How many times the turns incremented counter key.
counted(results, key) ==
    Cardinality({ij \in (DOMAIN results) \X {1, 2} :
                   /\ ij[2] \in DOMAIN results[ij[1]].counted
                   /\ results[ij[1]].counted[ij[2]] = key})

\* The stats dict that backfill_summaries returns (lines 150-158, 168, 198, 204).
stats_of(all_chats, path_of, results) ==
    [ total |-> Len(all_chats),
      processed |-> counted(results, "processed"),
      skipped_exists |-> Cardinality({i \in DOMAIN all_chats :
                             /\ path_of[all_chats[i]] # NoneVal
                             /\ get_summary_state(summaries, all_chats[i]) # {}}),
      skipped_no_messages |-> counted(results, "skipped_no_messages"),
      skipped_not_meaningful |-> counted(results, "skipped_not_meaningful"),
      skipped_not_actionable |-> counted(results, "skipped_not_actionable"),
      failed |-> counted(results, "failed") ]

RECURSIVE flatten(_)
flatten(seqs) == IF seqs = <<>> THEN <<>> ELSE seqs[1] \o flatten(Tail(seqs))

count_of(results, status) == Cardinality({i \in DOMAIN results : results[i].result = status})

\* The pass of a run of backfill, from the results of its chats.
BackfillPass(dry_run, results) ==
    [ kind |-> "backfill", gate |-> IF dry_run THEN "dry_run" ELSE "none", conv |-> "",
      state |-> "backfill", blob_ids |-> <<>>, new_blob_ids |-> {}, messages |-> <<>>,
      calls |-> flatten([i \in 1..Len(results) |-> results[i].calls]),
      exit |-> IF dry_run THEN "dry_run" ELSE "complete",
      writes |-> flatten([i \in 1..Len(results) |-> results[i].writes]),
      continues |-> 0, before |-> summaries, folded_before |-> folded ]

\* One run of backfill_summaries over the chats discovered in the order
\* all_chats, as the pass it makes.
\* A run that reaches the loop whether or not dry_run is set.
backfill_turns_wet(dry_run, limit, all_chats, path_of, metas, read_oks, outcomes, faults, now) ==
    process_all(apply_limit(select_to_process(all_chats, path_of), limit),
                path_of, metas, read_oks, outcomes, faults, now)

\* The turns of the loop of one run: none when dry_run returns before it.
backfill_turns(dry_run, limit, all_chats, path_of, metas, read_oks, outcomes, faults, now) ==
    IF dry_run THEN <<>>
    ELSE process_all(apply_limit(select_to_process(all_chats, path_of), limit),
                     path_of, metas, read_oks, outcomes, faults, now)

backfill_pass(dry_run, limit, all_chats, path_of, metas, read_oks, outcomes, faults, now) ==
    BackfillPass(dry_run, backfill_turns(dry_run, limit, all_chats, path_of, metas, read_oks,
                                         outcomes, faults, now))

(***************************************************************************)
(* The operations as actions.                                              *)
(***************************************************************************)
RECURSIVE apply_writes(_, _)
apply_writes(table, writes) ==
    IF writes = <<>> THEN table
    ELSE apply_writes(upsert_summary(table, writes[1].conv, writes[1].summary_text,
                                     writes[1].blob_ids, writes[1].chat_name,
                                     writes[1].chat_directory, writes[1].now),
                      Tail(writes))

\* The write of the pass to conversation c, when there is one.
write_to(pass, c) == {pass.writes[i] : i \in {j \in DOMAIN pass.writes : pass.writes[j].conv = c}}
\* Whether the call of the pass for conversation c was given a prior summary.
updates(pass, c) ==
    \E i \in DOMAIN pass.calls : pass.calls[i].conv = c /\ pass.calls[i].prompt.shape = "update"

\* The state after a pass: its writes, the clock they read, and the history of
\* what the summaries came from.
CommitStores(pass) ==
    /\ lastPass' = pass
    /\ summaries' = apply_writes(summaries, pass.writes)
    /\ clock' = IF pass.writes = <<>> THEN clock ELSE pass.writes[Len(pass.writes)].now
    /\ contrib' = [c \in ConvIds |->
                     IF write_to(pass, c) = {} THEN contrib[c]
                     ELSE (IF updates(pass, c) THEN contrib[c] ELSE {})
                          \cup (CHOOSE w \in write_to(pass, c) : TRUE).contributors]
    /\ folded' = [c \in ConvIds |->
                     IF write_to(pass, c) = {} THEN folded[c]
                     ELSE folded[c] \cup Range((CHOOSE w \in write_to(pass, c) : TRUE).blob_ids)]
    /\ created0' = [c \in ConvIds |->
                     IF write_to(pass, c) = {} \/ created0[c] # 0 THEN created0[c]
                     ELSE (CHOOSE w \in write_to(pass, c) : TRUE).now]

Commit(pass) == CommitStores(pass) /\ UNCHANGED <<chats, probe>>

\* What stdin holds.
Raw(kind, conv, roots) == [kind |-> kind, conversation_id |-> conv, workspace_roots |-> roots]
\* What read_meta returns.
RunMetas == {NoMeta, Meta("Fix login", 0), Meta("New Agent", JAN_2026_MS - 1)}
\* The workspace_roots of the payload and the meta record of the store of the
\* invocations that write.
WriteInputs == { <<<<>>, NoMeta>>, <<<<"/w">>, Meta("Fix login", 0)>>,
                 <<<<"/w">>, Meta("New Agent", JAN_2026_MS - 1)>> }
HookInput(env_skip, hooks_enabled, raw, meta, read_ok, outcome, now) ==
    [ env_skip |-> env_skip, hooks_enabled |-> hooks_enabled, raw |-> raw, meta |-> meta,
      read_ok |-> read_ok, outcome |-> outcome, now |-> now ]
AnyOutcome == Exit(1, <<>>)
\* Invocations that end at a gate.
GatedInputs ==
    { HookInput(TRUE, TRUE, Raw("empty", "", <<>>), NoMeta, TRUE, AnyOutcome, clock),
      HookInput(FALSE, FALSE, Raw("empty", "", <<>>), NoMeta, TRUE, AnyOutcome, clock),
      HookInput(FALSE, TRUE, Raw("empty", "", <<>>), NoMeta, TRUE, AnyOutcome, clock),
      HookInput(FALSE, TRUE, Raw("malformed", "", <<>>), NoMeta, TRUE, AnyOutcome, clock),
      HookInput(FALSE, TRUE, Raw("not_object", "", <<>>), NoMeta, TRUE, AnyOutcome, clock),
      HookInput(FALSE, TRUE, Raw("object", "", <<"/w">>), NoMeta, TRUE, AnyOutcome, clock) }
    \cup { HookInput(FALSE, TRUE, Raw("object", c, <<"/w">>), NoMeta, TRUE, AnyOutcome, clock) :
             c \in ConvIds \ DOMAIN chats }
    \cup { HookInput(FALSE, TRUE, Raw("object", c, <<"/w">>), Meta("New Agent", JAN_2026_MS),
                     TRUE, AnyOutcome, clock) : c \in DOMAIN chats }
\* The invocation for conversation c that reaches the pipeline.
PipelineInput(c, roots, meta, read_ok, outcome, now) ==
    HookInput(FALSE, TRUE, Raw("object", c, roots), meta, read_ok, outcome, now)
run_main(in) ==
    main_pass(in.env_skip, in.hooks_enabled, in.raw, in.meta, in.read_ok, in.outcome, in.now)
\* The passes of invocation in and of those that differ from it where the run
\* can go another way: in the outcome of the completion call when the run makes
\* the call, and in the name, the directory and the clock reading when it
\* writes.
RECURSIVE HookPassesFrom(_, _)
HookRefine(in, stage, pass) ==
    IF stage = 0 /\ pass.calls # <<>>
    THEN UNION {HookPassesFrom([in EXCEPT !.outcome = outcome], 1) : outcome \in Outcomes}
    ELSE IF stage = 1 /\ pass.writes # <<>>
    THEN UNION {HookPassesFrom([in EXCEPT !.raw = Raw("object", in.raw.conversation_id, w[1]),
                                          !.meta = w[2], !.now = now], 2) :
                  w \in WriteInputs, now \in clock..MaxClock}
    ELSE {pass}
HookPassesFrom(in, stage) == HookRefine(in, stage, run_main(in))
HookPasses ==
    UNION {HookPassesFrom(in, 0) :
             in \in GatedInputs
                    \cup {PipelineInput(c, <<>>, NoMeta, read_ok, AnyOutcome, clock) :
                            c \in DOMAIN chats, read_ok \in BOOLEAN}}

\* One invocation of the hook handler.
main ==
    \E pass \in HookPasses : Commit(pass)

Limits == {[isNone |-> TRUE, n |-> 0], [isNone |-> FALSE, n |-> 0], [isNone |-> FALSE, n |-> 1]}
\* The sequences that hold each element of S once.
RECURSIVE Orders(_)
Orders(S) == IF S = {} THEN {<<>>}
             ELSE UNION {{<<x>> \o o : o \in Orders(S \ {x})} : x \in S}

BackfillInput(dry_run, limit, all_chats, path_of, metas, read_oks, outcomes, faults, now) ==
    [ dry_run |-> dry_run, limit |-> limit, all_chats |-> all_chats, path_of |-> path_of,
      metas |-> metas, read_oks |-> read_oks, outcomes |-> outcomes, faults |-> faults,
      now |-> now ]
run_backfill(in) ==
    backfill_pass(in.dry_run, in.limit, in.all_chats, in.path_of, in.metas, in.read_oks,
                  in.outcomes, in.faults, in.now)
\* The passes of run in and of those that differ from it where the run can go
\* another way (as for the hook).
RECURSIVE BackfillPassesFrom(_, _)
BackfillRefine(in, stage, pass) ==
    IF stage = 0 /\ pass.calls # <<>>
    THEN UNION {BackfillPassesFrom([in EXCEPT !.outcomes = outcomes], 1) :
                  outcomes \in [DOMAIN chats -> Outcomes]}
    ELSE IF stage = 1 /\ pass.writes # <<>>
    THEN UNION {BackfillPassesFrom([in EXCEPT !.metas = metas, !.now = now], 2) :
                  metas \in [DOMAIN chats -> RunMetas], now \in clock..MaxClock}
    ELSE {pass}
BackfillPassesFrom(in, stage) == BackfillRefine(in, stage, run_backfill(in))
BackfillPasses ==
    UNION { BackfillPassesFrom(BackfillInput(dry_run, limit, all_chats, path_of,
                                             [c \in DOMAIN chats |-> NoMeta], read_oks,
                                             [c \in DOMAIN chats |-> AnyOutcome],
                                             [c \in DOMAIN chats |-> "none"], clock), 0) :
              dry_run \in BOOLEAN, limit \in Limits, all_chats \in Orders(DOMAIN chats),
              path_of \in [DOMAIN chats -> {NoneVal, "/w"}],
              read_oks \in [DOMAIN chats -> BOOLEAN] }

\* One run of backfill.
backfill_summaries ==
    \E pass \in BackfillPasses : Commit(pass)

\* The chat tool appends a blob to a conversation's store.
AppendBlob ==
    \E c \in DOMAIN chats, data \in Payloads :
        /\ Len(chats[c]) < MaxBlobs
        /\ chats' = [chats EXCEPT ![c] = Append(@, [id |-> BlobIdPool[Len(@) + 1], data |-> data])]
        /\ lastPass' = QuietPass("append", "none", c)
        /\ UNCHANGED <<summaries, clock, contrib, folded, created0, probe>>

\* A summary row of a conversation whose chat store is gone.
OrphanRow ==
    [ conversation_id |-> "c2", summary_text |-> GoodSummary, blob_ids_json |-> <<"A">>,
      created_at |-> 1, updated_at |-> 1, chat_name |-> "Old chat", chat_directory |-> "/w" ]

\* No function is being applied.
NoProbe == [fn |-> "none", done |-> TRUE]

InitStores ==
    /\ chats = [c \in {"c1"} |-> <<>>]
    /\ summaries = {OrphanRow}
    /\ clock = 1
    /\ contrib = [c \in ConvIds |-> IF c \in {r.conversation_id : r \in summaries} THEN {"A"} ELSE {}]
    /\ folded = [c \in ConvIds |-> IF c \in {r.conversation_id : r \in summaries} THEN {"A"} ELSE {}]
    /\ created0 = [c \in ConvIds |-> IF c \in {r.conversation_id : r \in summaries} THEN 1 ELSE 0]
    /\ lastPass = QuietPass("init", "none", "")

Init == InitStores /\ probe = NoProbe

Next == main \/ backfill_summaries \/ AppendBlob

Spec == Init /\ [][Next]_vars

(***************************************************************************)
(* The functions of the code, each applied once to arguments drawn from    *)
(* bounded sets: the initial state holds the arguments, the action the     *)
(* result.                                                                 *)
(***************************************************************************)
\* Deepest directory of a tree.
MaxDepth == 3
\* The names directories have: the first segment of a path, and the others.
RootSegments == {Users, <<"h","o","m","e">>, <<"U","s","e","r","s","-","a">>}
Segments == {<<"a">>, <<"a","-","a">>}
RECURSIVE DirsOfDepth(_)
DirsOfDepth(n) ==
    IF n = 1 THEN {<<s>> : s \in RootSegments}
    ELSE {Append(d, s) : d \in DirsOfDepth(n - 1), s \in Segments}
Dirs == UNION {DirsOfDepth(n) : n \in 1..MaxDepth}
\* A directory exists with every directory above it.
Closure(leaves) == {<<>>} \cup UNION {{SubSeq(d, 1, k) : k \in 1..Len(d)} : d \in leaves}
\* The trees: the root alone, and the root with one or two directories and
\* those above them.
Trees == {Closure({})} \cup {Closure({d, e}) : d \in Dirs, e \in Dirs}
\* Folder names: those of the directories, and names no directory has.
FolderNames ==
    {encode(d) : d \in Dirs}
    \cup {<<>>, <<"-">>, <<"-","-">>, <<"U","s","e","r","s","-">>, <<"U","s","e","r","s","-","-","a">>, <<"-","U","s","e","r","s","-","a">>, <<"a">>}

CodecInputs ==
    {[fn |-> "decode", done |-> FALSE, folder_name |-> name, tree |-> tree, result |-> NoneText] :
       name \in FolderNames, tree \in Trees}

\* build_path_mapping resolves the name of one folder of the projects directory.
resolve ==
    /\ probe.fn = "decode" /\ ~probe.done
    /\ probe' = [probe EXCEPT !.done = TRUE,
                              !.result = _resolve_folder_name_to_path(probe.folder_name,
                                                                      probe.tree)]
    /\ UNCHANGED storeVars

InitCodec == InitStores /\ probe \in CodecInputs
NextCodec == resolve
SpecCodec == InitCodec /\ [][NextCodec]_vars

(***************************************************************************)
(* The extractor applied on its own.                                       *)
(***************************************************************************)
Row(i, d) == [id |-> BlobIdPool[i], data |-> d]
SystemPayloads == {d \in ProbePayloads : d.isdict /\ d.role = "system"}
\* The blob lists: none, one, two of any payloads, and a system blob between
\* two blobs of the stores.
BlobLists ==
    {<<>>} \cup {<<Row(1, d)>> : d \in ProbePayloads}
    \cup {<<Row(1, d), Row(2, e)>> : d \in ProbePayloads, e \in ProbePayloads}
    \cup {<<Row(1, d), Row(2, s), Row(3, e)>> : d \in Payloads, s \in SystemPayloads, e \in Payloads}
\* Records of the blobs table that are no JSON object: text that starts with
\* '{' and does not parse, bytes that do not start with '{' (the tool's binary
\* records), and bytes that start with '{' and are not UTF-8.
RawRecord(starts_brace, utf8) ==
    [ starts_brace |-> starts_brace, utf8 |-> utf8, parses |-> FALSE, isdict |-> FALSE,
      role |-> "", content |-> StrContent(PlainText) ]
UnparsableBlob == RawRecord(TRUE, TRUE)
BinaryBlob == RawRecord(FALSE, FALSE)
UndecodableBlob == RawRecord(TRUE, FALSE)
StoredRecords == {UserBlob, AssistantBlob, UnparsableBlob, BinaryBlob, UndecodableBlob}
\* The tables of at most MaxBlobs rows.
Tables == UNION {{[i \in 1..k |-> Row(i, ds[i])] : ds \in [1..k -> StoredRecords]} : k \in 0..MaxBlobs}
ExtractInputs ==
    {[fn |-> "list", done |-> FALSE, rows |-> rows, read_ok |-> read_ok, result |-> <<>>] :
       rows \in Tables, read_ok \in BOOLEAN} \cup
    {[fn |-> "extract", done |-> FALSE, blobs |-> bs, result |-> <<>>] : bs \in BlobLists}
    \cup {[fn |-> "text", done |-> FALSE, content |-> c, result |-> <<>>] : c \in ProbeContents}
    \cup {[fn |-> "query", done |-> FALSE, text |-> t, result |-> <<>>] : t \in ProbeTexts}

extract_messages ==
    /\ probe.fn = "extract" /\ ~probe.done
    /\ probe' = [probe EXCEPT !.done = TRUE, !.result = _extract_messages(probe.blobs)]
    /\ UNCHANGED storeVars

list_blobs ==
    /\ probe.fn = "list" /\ ~probe.done
    /\ probe' = [probe EXCEPT !.done = TRUE,
                               !.result = list_json_blobs(probe.rows, probe.read_ok)]
    /\ UNCHANGED storeVars

extract_text_content ==
    /\ probe.fn = "text" /\ ~probe.done
    /\ probe' = [probe EXCEPT !.done = TRUE, !.result = _extract_text_content(probe.content)]
    /\ UNCHANGED storeVars

extract_user_query ==
    /\ probe.fn = "query" /\ ~probe.done
    /\ probe' = [probe EXCEPT !.done = TRUE, !.result = _extract_user_query(probe.text)]
    /\ UNCHANGED storeVars

InitExtract == InitStores /\ probe \in ExtractInputs
NextExtract == extract_messages \/ extract_text_content \/ extract_user_query \/ list_blobs
SpecExtract == InitExtract /\ [][NextExtract]_vars

(***************************************************************************)
(* The summary engine applied on its own.                                  *)
(***************************************************************************)
\* The largest max_words, and the most words the completion call writes.
MaxWordLimit == 4
MaxStdoutWords == 5
WordPool == <<<<"F","i","x","e","d">>, <<"t","h","e">>, <<"l","o","g","i","n">>, <<"b","u","g">>, <<"i","n">>, <<"a","u","t","h",".","p","y">>, <<"t","o","d","a","y">>>>
\* The first k words, with sep between them.
Words(k, sep) == join(sep, SubSeq(WordPool, 1, k))
\* What the call writes: k words with one space or two between them, and a
\* newline at the end; or it fails.
StdoutTexts ==
    {Words(k, <<" ">>) \o <<"\n">> : k \in 0..MaxStdoutWords}
    \cup {<<" ">> \o Words(k, <<" ", " ">>) \o <<"\n">> : k \in 2..MaxStdoutWords}
EngineOutcomes ==
    {Exit(0, t) : t \in StdoutTexts}
    \cup { Exit(1, Words(2, <<" ">>)),
           [kind |-> "timeout", returncode |-> 0, stdout |-> <<>>],
           [kind |-> "not_found", returncode |-> 0, stdout |-> <<>>] }
\* config.summary_max_words is whatever number config.json holds.
WordLimits == (0 - 1)..MaxWordLimit
\* The summaries the screen is given.
TwelveWords == <<"R","e","f","a","c","t","o","r","e","d"," ","p","a","y","m","e","n","t"," ","m","o","d","u","l","e"," ","t","o","w","a","r","d"," ","s","e","p","a","r","a","t","e"," ","s","e","r","v","i","c","e","s"," ","a","n","d"," ","i","m","p","l","e","m","e","n","t","e","d"," ","r","e","t","r","y"," ","l","o","g","i","c"," ","f","o","r"," ","w","e","b","h","o","o","k","s">>
TestingSummary == <<"A","d","d","e","d"," ","i","n","t","e","g","r","a","t","i","o","n"," ","t","e","s","t","i","n","g"," ","f","o","r"," ","p","a","y","m","e","n","t","s"," ","m","o","d","u","l","e"," ","u","s","i","n","g"," ","f","i","x","t","u","r","e","s"," ","p","l","u","s"," ","m","o","c","k","e","d"," ","u","p","s","t","r","e","a","m"," ","r","e","s","p","o","n","s","e","s">>
ShoutedSummary == <<"N","O"," ","A","C","T","I","O","N","A","B","L","E"," ","C","O","N","T","E","N","T"," ","w","a","s"," ","f","o","u","n","d"," ","i","n"," ","t","h","i","s"," ","c","h","a","t"," ","b","e","c","a","u","s","e"," ","t","h","e"," ","u","s","e","r"," ","o","n","l","y"," ","g","r","e","e","t","e","d"," ","t","h","e"," ","a","s","s","i","s","t","a","n","t">>
InitiatedSummary == <<"U","s","e","r"," ","i","n","i","t","i","a","t","e","d"," ","a"," ","c","h","a","t"," ","a","b","o","u","t"," ","n","o","t","h","i","n","g"," ","i","n"," ","p","a","r","t","i","c","u","l","a","r"," ","a","n","d"," ","t","h","e","n"," ","l","e","f","t"," ","w","i","t","h","o","u","t"," ","a","s","k","i","n","g"," ","f","o","r"," ","a","n","y"," ","c","h","a","n","g","e">>
NumbersSummary == <<"1"," ","2"," ","3"," ","4"," ","5"," ","6"," ","7"," ","8"," ","9"," ","1","0"," ","1","1"," ","1","2"," ","s","t","e","p","s"," ","w","e","r","e"," ","r","u","n">>
ShortSummary == <<"F","i","x","e","d"," ","t","h","e"," ","l","o","g","i","n"," ","b","u","g"," ","i","n"," ","t","h","e"," ","a","u","t","h","e","n","t","i","c","a","t","i","o","n"," ","m","o","d","u","l","e"," ","q","u","i","c","k","l","y">>
ScreenedSummaries ==
    {NoneText, SomeText(<<>>)}
    \cup {SomeText(t) : t \in {NoActionSummary, GoodSummary, TwelveWords, TestingSummary,
                               ShoutedSummary, InitiatedSummary, NumbersSummary, ShortSummary,
                               LongSummary}}
EngineMessages == {<<>>} \cup {<<m>> : m \in Messages}
\* The prompts of the engine: for one message, two messages and a list whose
\* prompt is longer than the 2000 characters a message keeps, with and without
\* an existing summary.
LongMessage == [role |-> "assistant", content |-> repeat(AssistantText \o <<" ">>, 10)]
PromptMessageLists ==
    {<<m>> : m \in Messages} \cup {<<m, n>> : m \in Messages, n \in Messages}
    \cup {<<LongMessage>>}
Prompts ==
    {prompt_text(build_summary_prompt(ms, summary_max_words, e)) :
        ms \in PromptMessageLists, e \in {NoneText, SomeText(GoodSummary)}}
\* The user blob the chat tool stores for a prompt: the text itself, the text
\* in a <user_query> span after the tool's own tags, the text as a text part.
PromptBlobs(p) ==
    { JsonDict("user", StrContent(p)),
      JsonDict("user", StrContent(<<"<","u","s","e","r","_","i","n","f","o",">","O","S",":"," ","l","i","n","u","x","<","/","u","s","e","r","_","i","n","f","o",">","\n","<","u","s","e","r","_","q","u","e","r","y",">","\n">> \o p
                                  \o <<"\n","<","/","u","s","e","r","_","q","u","e","r","y",">">>)),
      JsonDict("user", ListContent(<<Part("text", p)>>)) }
ReplyBlob == JsonDict("assistant", StrContent(GoodSummary))
\* The chat of a summarization request: the prompt alone, the prompt and the
\* reply, and both after the blobs of another exchange.
PromptChats(p) ==
    UNION {{ <<Row(1, u)>>,
             <<Row(1, u), Row(2, ReplyBlob)>>,
             <<Row(1, UserBlob), Row(2, AssistantBlob), Row(3, u), Row(4, ReplyBlob)>> } :
           u \in PromptBlobs(p)}
\* Messages as the extractor leaves them: one cut at MaxContentLen characters,
\* one somewhat shorter, one of a line.
MaxMessages == 4
BigMessage == [role |-> "assistant", content |-> prefix(LongText, MaxContentLen)]
MidMessage == [role |-> "assistant", content |-> prefix(LongText, MaxContentLen - 120)]
SmallMessage == [role |-> "user", content |-> PlainText]
TrimMessageLists == BoundedSeqs({BigMessage, MidMessage, SmallMessage}, MaxMessages)
EngineInputs ==
    {[fn |-> "actionable", done |-> FALSE, summary |-> s, result |-> FALSE] :
        s \in ScreenedSummaries}
    \cup {[fn |-> "generate", done |-> FALSE, messages |-> ms, max_words |-> n,
           existing_summary |-> e, outcome |-> o, result |-> NoneText] :
            ms \in EngineMessages, n \in WordLimits, e \in {NoneText, SomeText(GoodSummary)},
            o \in EngineOutcomes}
    \cup {[fn |-> "prompt", done |-> FALSE, messages |-> ms, max_words |-> summary_max_words,
           existing_summary |-> e, result |-> <<>>] :
            ms \in TrimMessageLists, e \in {NoneText, SomeText(GoodSummary)}}
    \cup UNION {{[fn |-> "meta", done |-> FALSE, prompt |-> p, blobs |-> bs, result |-> <<>>] :
                    bs \in PromptChats(p)} : p \in Prompts}

build_prompt ==
    /\ probe.fn = "prompt" /\ ~probe.done
    /\ probe' = [probe EXCEPT !.done = TRUE,
                               !.result = build_summary_prompt(probe.messages, probe.max_words,
                                                               probe.existing_summary)]
    /\ UNCHANGED storeVars

screen_summary ==
    /\ probe.fn = "actionable" /\ ~probe.done
    /\ probe' = [probe EXCEPT !.done = TRUE, !.result = is_summary_actionable(probe.summary)]
    /\ UNCHANGED storeVars

summarize ==
    /\ probe.fn = "generate" /\ ~probe.done
    /\ probe' = [probe EXCEPT !.done = TRUE,
                              !.result = generate_summary(probe.messages, probe.max_words,
                                                          probe.existing_summary, probe.outcome)]
    /\ UNCHANGED storeVars

\* The chat of a summarization request before the hook and before backfill,
\* with no record yet and a completion call that would answer well.
screen_chat ==
    /\ probe.fn = "meta" /\ ~probe.done
    /\ probe' = [probe EXCEPT
                    !.done = TRUE,
                    !.result = [ messages   |-> _extract_messages(probe.blobs),
                                 meaningful |-> has_meaningful_messages(_extract_messages(probe.blobs)),
                                 hook       |-> main_extract("c1", "Unnamed", NoneVal,
                                                             Exit(0, GoodSummary \o <<"\n">>), 1,
                                                             probe.blobs, {}, {}),
                                 backfill   |-> process_blobs("c1", "/w", "Unnamed",
                                                              Exit(0, GoodSummary \o <<"\n">>), 1,
                                                              probe.blobs) ]]
    /\ UNCHANGED storeVars

InitEngine == InitStores /\ probe \in EngineInputs
NextEngine == screen_summary \/ summarize \/ screen_chat \/ build_prompt
SpecEngine == InitEngine /\ [][NextEngine]_vars

(***************************************************************************)
(* One run of backfill over a batch of chats.                              *)
(***************************************************************************)
MaxLimit == 2
\* The chats that discover_all_chats finds, in the order it finds them.
BatchChats == <<"c1", "c2", "c3">>
BatchConvs == Range(BatchChats)
\* A store with a request and its answer, and a store with no blobs.
FullStore == <<Row(1, UserBlob), Row(2, AssistantBlob)>>
EmptyStore == <<>>
\* What a chat of the batch holds and what the environment does when the run
\* reaches it: its blobs, its meta record, the outcome of its completion
\* call, and the fault of its turn.
Chat(store, meta, outcome, fault) ==
    [store |-> store, meta |-> meta, outcome |-> outcome, fault |-> fault]
BatchProfiles ==
    { Chat(FullStore, Meta("Fix login", 0), Exit(0, GoodSummary \o <<"\n">>), "none"),
      Chat(EmptyStore, NoMeta, AnyOutcome, "none"),
      Chat(FullStore, NoMeta, Exit(0, NoActionSummary \o <<"\n">>), "none"),
      Chat(FullStore, NoMeta, AnyOutcome, "none"),
      Chat(FullStore, NoMeta, AnyOutcome, "read"),
      Chat(FullStore, Meta("Fix login", 0), Exit(0, GoodSummary \o <<"\n">>), "upsert"),
      Chat(FullStore, Meta(NoneVal, 0), Exit(0, GoodSummary \o <<"\n">>), "none") }
\* --limit: absent, or an integer argparse accepts.
RunLimits == {[isNone |-> TRUE, n |-> 0]} \cup {[isNone |-> FALSE, n |-> n] : n \in (0 - 1)..MaxLimit}
\* The runs: the profile of each chat, the flags of the command line, and
\* whether the last chat maps to a workspace path.
BatchInputs ==
    { [ fn |-> "backfill", done |-> FALSE, profile |-> profile,
        in |-> BackfillInput(dry_run, limit, BatchChats,
                             [c \in BatchConvs |-> IF c = "c3" /\ ~mapped THEN NoneVal ELSE "/w"],
                             [c \in BatchConvs |-> profile[c].meta],
                             [c \in BatchConvs |-> TRUE],
                             [c \in BatchConvs |-> profile[c].outcome],
                             [c \in BatchConvs |-> profile[c].fault], 1),
        result |-> <<>> ] :
        profile \in [BatchConvs -> BatchProfiles], dry_run \in BOOLEAN, limit \in RunLimits,
        mapped \in BOOLEAN }

\* What a run leaves besides its pass: the chats it was to process, the turns
\* of its loop and the stats it returns.
run_result(in) ==
    [ to_process |-> apply_limit(select_to_process(in.all_chats, in.path_of), in.limit),
      turns |-> backfill_turns(in.dry_run, in.limit, in.all_chats, in.path_of, in.metas,
                               in.read_oks, in.outcomes, in.faults, in.now),
      stats |-> stats_of(in.all_chats, in.path_of,
                         backfill_turns(in.dry_run, in.limit, in.all_chats, in.path_of,
                                        in.metas, in.read_oks, in.outcomes, in.faults, in.now)) ]

\* python -m curlens backfill [--dry-run] [--limit N]
backfill_run ==
    /\ probe.fn = "backfill" /\ ~probe.done
    /\ probe' = [probe EXCEPT !.done = TRUE, !.result = run_result(probe.in)]
    /\ CommitStores(run_backfill(probe.in))
    /\ UNCHANGED chats

InitBackfill ==
    /\ probe \in BatchInputs
    /\ chats = [c \in BatchConvs |-> probe.profile[c].store]
    /\ summaries \in {{}, {OrphanRow}}
    /\ clock = 1
    /\ contrib = [c \in ConvIds |-> IF c \in {r.conversation_id : r \in summaries} THEN {"A"} ELSE {}]
    /\ folded = [c \in ConvIds |-> IF c \in {r.conversation_id : r \in summaries} THEN {"A"} ELSE {}]
    /\ created0 = [c \in ConvIds |-> IF c \in {r.conversation_id : r \in summaries} THEN 1 ELSE 0]
    /\ lastPass = QuietPass("init", "none", "")
NextBackfill == backfill_run
SpecBackfill == InitBackfill /\ [][NextBackfill]_vars

(***************************************************************************)
(* Hook invocations as processes: the steps of main between which another  *)
(* process can run.  Two invocations of the chat tool's hooks for the same *)
(* conversation, and the hook events the completion call's own process     *)
(* fires while it runs.                                                    *)
(***************************************************************************)
TopProcs == {"p1", "p2"}
NestedProcs == {"n1"}
HookProcs == TopProcs \cup NestedProcs
\* An invocation that has not begun.
IdleProc ==
    [ pc |-> "idle", parent |-> "", environ |-> Environ(FALSE), conv |-> "",
      reads |-> 0, blobs |-> <<>>, existing |-> {}, calls |-> 0, child_environ |-> Environ(FALSE),
      write |-> <<>>, now |-> 0, created_at |-> 0, responses |-> 0 ]
\* The outcomes of a completion call: two summaries that pass the screen, and
\* a failure.
CallOutcomes == {Exit(0, GoodSummary \o <<"\n">>), Exit(0, LongSummary \o <<"\n">>), Exit(1, <<>>)}

\* The process p of the table, changed.
Step(p, proc) == probe' = [probe EXCEPT !.procs[p] = proc]
\* print(json.dumps({"continue": True})); return
Respond(proc) == [proc EXCEPT !.pc = "done", !.responses = @ + 1]

\* Lines 46-99: the process begins with its environment, and ends at once
\* when CURLENS_SKIP_HOOKS is "1"; otherwise it goes on to read the store.
Begin(p, parent, environ, conv) ==
    /\ probe.procs[p].pc = "idle"
    /\ Step(p, IF main_pass(environ.CURLENS_SKIP_HOOKS = "1", TRUE, Raw("object", conv, <<"/w">>),
                            NoMeta, TRUE, AnyOutcome, clock).gate # "none"
               THEN Respond([probe.procs[p] EXCEPT !.parent = parent, !.environ = environ,
                                                   !.conv = conv])
               ELSE [probe.procs[p] EXCEPT !.pc = "list", !.parent = parent,
                                           !.environ = environ, !.conv = conv])
    /\ UNCHANGED storeVars

\* The chat tool fires a hook for the conversation, in the environment the
\* user started it in.
HookInvoke ==
    \E p \in TopProcs, skip \in BOOLEAN : Begin(p, "", Environ(skip), "c1")

\* The process of a completion call fires a hook, in its own environment.
HookNested ==
    \E p \in HookProcs, q \in NestedProcs :
        /\ probe.procs[p].pc = "in_call"
        /\ Begin(q, p, probe.procs[p].child_environ, "c1")

\* Line 101: blobs = list_json_blobs(db_path)
HookListBlobs ==
    \E p \in HookProcs :
        /\ probe.procs[p].pc = "list"
        /\ Step(p, [probe.procs[p] EXCEPT !.pc = "state", !.reads = @ + 1,
                        !.blobs = list_json_blobs(chats[probe.procs[p].conv], TRUE)])
        /\ UNCHANGED storeVars

\* The pass of process proc for what it has read, were its call to end with
\* outcome and its write to read the clock at now.
pass_of(proc, outcome, now) ==
    main_diff(proc.conv, "Unnamed", "/w", outcome, now, proc.blobs, proc.existing)

\* Lines 105-139: the record is read, and the process returns when nothing is
\* new or the messages are screened out.
HookGetState ==
    \E p \in HookProcs :
        /\ probe.procs[p].pc = "state"
        /\ Step(p, LET proc == [probe.procs[p] EXCEPT
                                   !.reads = @ + 1,
                                   !.existing = get_summary_state(summaries, probe.procs[p].conv)]
                   IN  IF pass_of(proc, AnyOutcome, clock).calls = <<>> THEN Respond(proc)
                       ELSE [proc EXCEPT !.pc = "call"])
        /\ UNCHANGED storeVars

\* generate_summary: run_agent starts the process of the completion call.
HookStartCall ==
    \E p \in HookProcs :
        /\ probe.procs[p].pc = "call"
        /\ Step(p, [probe.procs[p] EXCEPT !.pc = "in_call", !.calls = @ + 1,
                        !.child_environ = run_agent_env(probe.procs[p].environ)])
        /\ UNCHANGED storeVars

\* The completion call returns, the hooks it fired having returned; lines
\* 148-151: the process returns when the summary is not actionable.
HookEndCall ==
    \E p \in HookProcs, outcome \in CallOutcomes :
        /\ probe.procs[p].pc = "in_call"
        /\ \A q \in HookProcs : probe.procs[q].parent = p => probe.procs[q].pc = "done"
        /\ Step(p, IF pass_of(probe.procs[p], outcome, clock).writes = <<>>
                   THEN Respond(probe.procs[p])
                   ELSE [probe.procs[p] EXCEPT !.pc = "select",
                             !.write = pass_of(probe.procs[p], outcome, clock).writes])
        /\ UNCHANGED storeVars

\* upsert_summary, lines 57-62: the clock is read, then created_at.
HookSelect ==
    \E p \in HookProcs, now \in clock..MaxClock :
        /\ probe.procs[p].pc = "select"
        /\ Step(p, [probe.procs[p] EXCEPT !.pc = "insert", !.now = now,
                        !.created_at = select_created_at(summaries, probe.procs[p].conv, now)])
        /\ clock' = now
        /\ UNCHANGED <<chats, summaries, lastPass, contrib, folded, created0>>

\* What the table of commits keeps of a write: who wrote what, whether it
\* was the insert, and who had read and not yet written.
Commit_of(p, proc) ==
    [ proc |-> p, conv |-> proc.conv, summary_text |-> proc.write[1].summary_text,
      blob_ids |-> proc.write[1].blob_ids, now |-> proc.now,
      inserted |-> rows_of(summaries, proc.conv) = {},
      pending |-> {q \in HookProcs \ {p} :
                     probe.procs[q].pc \in {"call", "in_call", "select", "insert"}} ]

\* upsert_summary, lines 64-81: the statement and the commit; then the response.
HookInsert ==
    \E p \in HookProcs :
        /\ probe.procs[p].pc = "insert"
        /\ summaries' = insert_on_conflict(summaries, probe.procs[p].conv,
                                           probe.procs[p].write[1].summary_text,
                                           probe.procs[p].write[1].blob_ids,
                                           probe.procs[p].created_at, probe.procs[p].now,
                                           probe.procs[p].write[1].chat_name,
                                           probe.procs[p].write[1].chat_directory)
        /\ probe' = [probe EXCEPT !.procs[p] = Respond(probe.procs[p]),
                                  !.commits = Append(@, Commit_of(p, probe.procs[p]))]
        /\ UNCHANGED <<chats, clock, lastPass, contrib, folded, created0>>

\* The chat tool appends a blob while hooks run.
HookAppendBlob ==
    /\ probe.fn = "hooks"
    /\ AppendBlob

InitHooks ==
    /\ probe = [fn |-> "hooks", done |-> FALSE, procs |-> [p \in HookProcs |-> IdleProc],
                commits |-> <<>>]
    /\ chats = [c \in {"c1"} |-> FullStore]
    /\ summaries = {OrphanRow}
    /\ clock = 1
    /\ contrib = [c \in ConvIds |-> IF c = "c2" THEN {"A"} ELSE {}]
    /\ folded = [c \in ConvIds |-> IF c = "c2" THEN {"A"} ELSE {}]
    /\ created0 = [c \in ConvIds |-> IF c = "c2" THEN 1 ELSE 0]
    /\ lastPass = QuietPass("init", "none", "")
NextHooks ==
    \/ HookInvoke \/ HookNested \/ HookListBlobs \/ HookGetState \/ HookStartCall
    \/ HookEndCall \/ HookSelect \/ HookInsert \/ HookAppendBlob
SpecHooks == InitHooks /\ [][NextHooks]_vars

(***************************************************************************)
(* The properties.  lastPass is the last operation: what it read           *)
(* (blob_ids), the table it found (before), the completion calls it made   *)
(* and the rows it wrote.  A hook invocation leaves chats alone, so chats  *)
(* is the store the invocation read.                                       *)
(***************************************************************************)
record(table, c) == CHOOSE r \in rows_of(table, c) : TRUE
coveredBlobIds(table, c) == Range(record(table, c).blob_ids_json)
\* The ids of the JSON blobs in the store of c.
store_ids(c) ==
    {chats[c][i].id : i \in {j \in DOMAIN chats[c] : chats[c][j].data.starts_brace
                                                     /\ chats[c][j].data.parses}}
\* The last operation was a hook invocation that got to reading the stores.
HookRead == lastPass.kind = "hook" /\ lastPass.gate = "none"
HadRecord == rows_of(lastPass.before, lastPass.conv) # {}
\* The blobs the invocation read, and those of them not covered before it.
read_blobs == SelectSeq(chats[lastPass.conv], LAMBDA row : row.id \in Range(lastPass.blob_ids))
delta_blobs ==
    SelectSeq(read_blobs,
              LAMBDA row : row.id \notin coveredBlobIds(lastPass.before, lastPass.conv))
\* The states of section 4.4, as the invocation found them.
FirstSummary == HookRead /\ ~HadRecord
Incremental ==
    /\ HookRead /\ HadRecord
    /\ ~(Range(lastPass.blob_ids) \subseteq coveredBlobIds(lastPass.before, lastPass.conv))
\* has_meaningful_messages and is_summary_actionable, from their tables.
Meaningful(messages) == lookup(MeaningfulMemo, messages)
Summary(outcome) == lookup(SummaryMemo, outcome)
Screened == {s \in {p[2] : p \in SummaryMemo} \cup {SomeText(OrphanRow.summary_text)} :
               is_summary_actionable(s)}
Failed(outcome) == outcome.kind # "exit" \/ outcome.returncode # 0
NoEffect == lastPass.calls = <<>> /\ lastPass.writes = <<>> /\ summaries = lastPass.before

\* C1: when a record exists and every blob id in the store (or every id the
\* invocation read from it, which may be fewer) is already covered, a hook
\* invocation makes no completion call and writes nothing.
C1_UnchangedIsQuiet ==
    ( /\ lastPass.kind = "hook" /\ lastPass.conv \in DOMAIN chats /\ HadRecord
      /\ \/ store_ids(lastPass.conv) \subseteq coveredBlobIds(lastPass.before, lastPass.conv)
         \/ /\ lastPass.gate = "none"
            /\ Range(lastPass.blob_ids) \subseteq coveredBlobIds(lastPass.before, lastPass.conv) )
    => NoEffect
\* An invocation finds the two ids of the store covered.
C1_Witness ==
    /\ HookRead /\ HadRecord /\ NoEffect
    /\ Cardinality(Range(lastPass.blob_ids)) = 2
    /\ Range(lastPass.blob_ids) = coveredBlobIds(lastPass.before, lastPass.conv)

\* The one call of an incremental update: the prior summary text, the messages
\* of the delta blobs in store order, and on an actionable result the full
\* current id set as coverage.
UpdateCall ==
    /\ Len(lastPass.calls) = 1
    /\ LET call == lastPass.calls[1]
       IN  /\ call.prompt.shape = "update"
           /\ call.prompt.existing_summary
                = SomeText(record(lastPass.before, lastPass.conv).summary_text)
           /\ call.input_ids = ids_of(delta_blobs)
           /\ lastPass.messages = _extract_messages(delta_blobs)
           /\ call.prompt.messages = _trim_json_messages(lastPass.messages, PromptMaxChars)
           /\ (Summary(call.outcome) \in Screened
                 => coveredBlobIds(summaries, lastPass.conv) = Range(lastPass.blob_ids))
\* C2 as stated: in the incremental-update state the hook makes exactly one
\* completion call, given the prior summary text and the messages of only the
\* delta blobs, and on an actionable result the coverage becomes the full
\* current id set.
C2_AsStated == Incremental => UpdateCall
\* C2, amended: in the incremental-update state, when the messages extracted
\* from the delta blobs are non-empty and pass has_meaningful_messages, the hook
\* makes exactly one completion call, given the prior summary text and the
\* messages of only the delta blobs in store order, and on an actionable
\* result the coverage becomes the full current id set.
C2_IncrementalUpdate ==
    ( /\ Incremental
      /\ _extract_messages(delta_blobs) # <<>>
      /\ Meaningful(_extract_messages(delta_blobs)) )
    => UpdateCall
\* An update over two covered ids folds a third in.
C2_Witness ==
    /\ Incremental /\ UpdateCall
    /\ Cardinality(coveredBlobIds(lastPass.before, lastPass.conv)) = 2
    /\ Len(delta_blobs) = 1
    /\ Cardinality(coveredBlobIds(summaries, lastPass.conv)) = 3

\* C3: the coverage of every record holds the id of every blob whose messages
\* went into its summary text, in the call that wrote it or in the calls that
\* wrote the prior summaries it was updated from.
C3_CoverageHoldsContributors ==
    \A c \in ConvIds :
        IF rows_of(summaries, c) = {} THEN contrib[c] = {}
        ELSE contrib[c] \subseteq coveredBlobIds(summaries, c)
\* An update has added a contributor to those of the prior summary.
C3_Witness ==
    /\ Incremental /\ lastPass.writes # <<>> /\ updates(lastPass, lastPass.conv)
    /\ Cardinality(contrib[lastPass.conv]) >= 2
    /\ lastPass.writes[1].contributors # contrib[lastPass.conv]

\* C4: every operation leaves each record with a superset of its coverage, and
\* an operation that does not write to a conversation leaves its record as it
\* was.
C4_CoverageGrows ==
    /\ \A r \in lastPass.before :
          /\ rows_of(summaries, r.conversation_id) # {}
          /\ Range(r.blob_ids_json) \subseteq coveredBlobIds(summaries, r.conversation_id)
    /\ \A c \in ConvIds :
          write_to(lastPass, c) = {} => rows_of(summaries, c) = rows_of(lastPass.before, c)
\* A write has grown the coverage of a record.
C4_Witness ==
    /\ HookRead /\ HadRecord /\ lastPass.writes # <<>>
    /\ coveredBlobIds(lastPass.before, lastPass.conv) # coveredBlobIds(summaries, lastPass.conv)
    /\ coveredBlobIds(lastPass.before, lastPass.conv) # {}

\* C5: no completion call is given a blob whose id an earlier pass wrote as
\* covered.
C5_FoldedNeverResurfaces ==
    \A i \in DOMAIN lastPass.calls :
        Range(lastPass.calls[i].input_ids) \cap lastPass.folded_before[lastPass.calls[i].conv] = {}
\* A call is given the two ids that came after the latest update.
C5_Witness ==
    /\ HookRead /\ lastPass.calls # <<>>
    /\ lastPass.folded_before[lastPass.conv] # {}
    /\ Cardinality(Range(lastPass.calls[1].input_ids)) = 2

\* The one call of a first summary: the messages of every blob read, no prior
\* summary, and on an actionable result a record with the full id set as
\* coverage and, when the returned text has at most summary_max_words words,
\* that text as its summary.
FirstCall ==
    /\ Len(lastPass.calls) = 1
    /\ LET call == lastPass.calls[1]
       IN  /\ call.prompt.shape = "fresh"
           /\ call.prompt.existing_summary = NoneText
           /\ call.input_ids = lastPass.blob_ids
           /\ lastPass.messages = _extract_messages(read_blobs)
           /\ call.prompt.messages = _trim_json_messages(lastPass.messages, PromptMaxChars)
           /\ (Summary(call.outcome) \in Screened
                 => /\ rows_of(summaries, lastPass.conv) # {}
                    /\ record(summaries, lastPass.conv).blob_ids_json = lastPass.blob_ids
                    /\ (word_count(call.result.text) <= summary_max_words
                          => record(summaries, lastPass.conv).summary_text = call.result.text))
\* C6 as stated: in the first-summary state the hook calls the completion in
\* fresh mode with the messages of the full blob set, and on an actionable
\* result creates the record.
C6_AsStated == FirstSummary => FirstCall
\* C6, amended: in the first-summary state, when the messages extracted from
\* the full blob set are non-empty and pass has_meaningful_messages, the hook
\* calls the completion once in fresh mode with those messages, and on an
\* actionable result creates a record whose summary text is the returned text
\* verbatim (when it has at most summary_max_words words) and whose coverage is
\* the full current id set.
C6_FirstSummary ==
    ( /\ FirstSummary
      /\ _extract_messages(read_blobs) # <<>>
      /\ Meaningful(_extract_messages(read_blobs)) )
    => FirstCall
\* A first summary of a user blob and an assistant blob stores the returned text.
C6_Witness ==
    /\ FirstSummary /\ FirstCall
    /\ Len(lastPass.blob_ids) = 2 /\ Len(lastPass.messages) = 2
    /\ rows_of(summaries, lastPass.conv) # {}
    /\ record(summaries, lastPass.conv).summary_text = GoodSummary

\* C7: a completion call that fails yields None, its pass writes nothing for
\* the conversation, whose record is as it was before the pass, and no pass
\* makes two calls for one conversation.
C7_FailureLeavesRecord ==
    /\ \A i \in DOMAIN lastPass.calls :
          Failed(lastPass.calls[i].outcome)
          => /\ lastPass.calls[i].result = NoneText
             /\ write_to(lastPass, lastPass.calls[i].conv) = {}
             /\ rows_of(summaries, lastPass.calls[i].conv)
                  = rows_of(lastPass.before, lastPass.calls[i].conv)
    /\ \A i, j \in DOMAIN lastPass.calls :
          lastPass.calls[i].conv = lastPass.calls[j].conv => i = j
\* The call of an update timed out and the record stands.
C7_Witness ==
    /\ Incremental /\ lastPass.calls # <<>>
    /\ lastPass.calls[1].outcome.kind = "timeout"
    /\ lastPass.calls[1].result = NoneText
    /\ summaries = lastPass.before

\* C8: every summary text in the table passes is_summary_actionable, and a
\* call whose result does not pass it writes nothing: the record of its
\* conversation is as it was.
C8_OnlyActionableStored ==
    /\ \A r \in summaries : SomeText(r.summary_text) \in Screened
    /\ \A i \in DOMAIN lastPass.writes : SomeText(lastPass.writes[i].summary_text) \in Screened
    /\ \A i \in DOMAIN lastPass.calls :
          Summary(lastPass.calls[i].outcome) \notin Screened
          => /\ write_to(lastPass, lastPass.calls[i].conv) = {}
             /\ rows_of(summaries, lastPass.calls[i].conv)
                  = rows_of(lastPass.before, lastPass.calls[i].conv)
\* An update was answered "No actionable content" and the record stands.
C8_Witness ==
    /\ Incremental /\ lastPass.calls # <<>>
    /\ lastPass.calls[1].result = SomeText(NoActionSummary)
    /\ lastPass.writes = <<>>
    /\ summaries = lastPass.before

\* C9: in the incremental-update state, when the messages extracted from the
\* delta blobs are empty or fail has_meaningful_messages, the pass makes no
\* call and writes nothing: the table is as it was.
C9_NothingMeaningful ==
    ( /\ Incremental
      /\ \/ _extract_messages(delta_blobs) = <<>>
         \/ ~Meaningful(_extract_messages(delta_blobs)) )
    => NoEffect
\* The delta held a message, and it was not meaningful.
C9_Witness ==
    /\ Incremental /\ NoEffect
    /\ _extract_messages(delta_blobs) # <<>>
    /\ ~Meaningful(_extract_messages(delta_blobs))

\* C10: once a record is created for a conversation id there is exactly one
\* record for it, its created_at is the one its creation gave it, and its
\* updated_at is at least its created_at and at least what it was before the
\* last operation.
C10_OneRecordForever ==
    /\ \A c \in ConvIds :
          created0[c] # 0
          => /\ Cardinality(rows_of(summaries, c)) = 1
             /\ record(summaries, c).created_at = created0[c]
             /\ record(summaries, c).updated_at >= record(summaries, c).created_at
    /\ \A r \in lastPass.before :
          /\ Cardinality(rows_of(summaries, r.conversation_id)) = 1
          /\ record(summaries, r.conversation_id).created_at = r.created_at
          /\ record(summaries, r.conversation_id).updated_at >= r.updated_at
\* A record was updated at a later reading of the clock than its creation.
C10_Witness ==
    /\ HookRead /\ HadRecord /\ lastPass.writes # <<>>
    /\ record(summaries, lastPass.conv).updated_at > record(summaries, lastPass.conv).created_at
    /\ record(summaries, lastPass.conv).created_at = created0[lastPass.conv]

\* A successful incremental pass: a hook invocation that found a record and
\* uncovered ids and wrote.
IncrementalWrite == Incremental /\ lastPass.writes # <<>>
\* C11 as stated: a successful incremental pass leaves created_at, chat_name
\* and chat_directory of the record as they were before the pass (summary_text,
\* blob_ids_json and updated_at alone change).
C11_AsStated ==
    IncrementalWrite
    => /\ record(summaries, lastPass.conv).created_at
            = record(lastPass.before, lastPass.conv).created_at
       /\ record(summaries, lastPass.conv).chat_name
            = record(lastPass.before, lastPass.conv).chat_name
       /\ record(summaries, lastPass.conv).chat_directory
            = record(lastPass.before, lastPass.conv).chat_directory
\* A record with a directory and a name is updated by an invocation whose
\* payload has no workspace_roots and whose store gives no meta record: its
\* directory is now None and its name "Unnamed".
C11_Witness ==
    /\ IncrementalWrite
    /\ record(lastPass.before, lastPass.conv).chat_directory = "/w"
    /\ record(lastPass.before, lastPass.conv).chat_name = "Fix login"
    /\ record(summaries, lastPass.conv).chat_directory = NoneVal
    /\ record(summaries, lastPass.conv).chat_name = "Unnamed"
    /\ record(summaries, lastPass.conv).created_at
         = record(lastPass.before, lastPass.conv).created_at

\* The folder name of the probe was decoded.
Decoded == probe.fn = "decode" /\ probe.done
\* C12: for every folder name and every tree, _resolve_folder_name_to_path
\* returns None or a path that os.path.isdir accepts in that tree.
C12_DecodeIsConfirmed ==
    Decoded => (probe.result.isNone \/ isdir(probe.result.text, probe.tree))
\* The search went back on "/Users/a" and found "/Users/a-a/a", which exists.
C12_Witness ==
    /\ Decoded
    /\ probe.folder_name = <<"U","s","e","r","s","-","a","-","a","-","a">>
    /\ probe.tree = Closure({<<Users, <<"a">>>>, <<Users, <<"a","-","a">>, <<"a">>>>})
    /\ probe.result = SomeText(<<"/","U","s","e","r","s","/","a","-","a","/","a">>)

\* The ways to take the parts of a folder name as segments: runs of parts that
\* follow one another, each run joined by "-".
RECURSIVE Segmentations(_)
Segmentations(parts) ==
    IF parts = <<>> THEN {<<>>}
    ELSE UNION {{<<join(<<"-">>, SubSeq(parts, 1, i))>> \o rest :
                   rest \in Segmentations(SubSeq(parts, i + 1, Len(parts)))} :
                i \in 1..Len(parts)}
\* No other segmentation of the name of directory d is a directory of the tree.
Unambiguous(d, tree) ==
    \A s \in Segmentations(split_on(encode(d), "-")) :
        s # d => ~isdir(path_of_segments(s), tree)
\* C13 as stated: the name of an existing directory, when no other
\* segmentation of it is an existing directory, decodes to the path of that
\* directory, whatever its first segment is.
C13_AsStated ==
    Decoded
    => \A d \in probe.tree \ {<<>>} :
          (encode(d) = probe.folder_name /\ Unambiguous(d, probe.tree))
          => probe.result = SomeText(path_of_segments(d))
\* C13 for the directories under /Users: the name of an existing directory
\* whose first segment is "Users", when no other segmentation of it is an
\* existing directory, decodes to the path of that directory.
C13_RoundTripUnderUsers ==
    Decoded
    => \A d \in probe.tree \ {<<>>} :
          (d[1] = Users /\ encode(d) = probe.folder_name /\ Unambiguous(d, probe.tree))
          => probe.result = SomeText(path_of_segments(d))
\* Only /home and /home/a-a exist, and "home-a-a" decodes to None.
C13_Witness ==
    /\ Decoded
    /\ probe.folder_name = <<"h","o","m","e","-","a","-","a">>
    /\ probe.tree = Closure({<<<<"h","o","m","e">>, <<"a","-","a">>>>})
    /\ Unambiguous(<<<<"h","o","m","e">>, <<"a","-","a">>>>, probe.tree)
    /\ probe.result = NoneText

\* _extract_messages was applied to the blob list of the probe.
Extracted == probe.fn = "extract" /\ probe.done
\* C14: no message _extract_messages returns has the role "system", whatever
\* the content of the blobs and whatever blobs stand before and after.
C14_NoSystemMessage ==
    Extracted => \A i \in DOMAIN probe.result : probe.result[i].role # "system"
\* A system blob with plain text of a request, between a user blob and an
\* assistant blob: the two messages of the others are returned, and no third.
C14_Witness ==
    /\ Extracted
    /\ probe.blobs = <<Row(1, UserBlob), Row(2, JsonDict("system", StrContent(PlainText))),
                       Row(3, AssistantBlob)>>
    /\ Len(probe.result) = 2
    /\ probe.result[1].role = "user" /\ probe.result[2].role = "assistant"

\* The texts of the parts typed "text", in order.
RECURSIVE TextParts(_)
TextParts(parts) ==
    IF parts = <<>> THEN <<>>
    ELSE (IF parts[1].isdict /\ parts[1].type = "text" THEN <<parts[1].text>> ELSE <<>>)
         \o TextParts(Tail(parts))
\* Texts with one space between each two.
RECURSIVE SpaceJoined(_)
SpaceJoined(texts) ==
    IF texts = <<>> THEN <<>>
    ELSE IF Len(texts) = 1 THEN texts[1]
    ELSE texts[1] \o <<" ">> \o SpaceJoined(Tail(texts))
\* List content with parts, all of them typed "reasoning".
OnlyReasoning(content) ==
    /\ content.kind = "list" /\ content.parts # <<>>
    /\ \A i \in DOMAIN content.parts :
          content.parts[i].isdict /\ content.parts[i].type = "reasoning"
\* C15: for list content _extract_text_content returns the texts of the parts
\* typed "text", in order, with one space between them, and no text of a part
\* typed "reasoning" is in it; content with reasoning parts only gives the
\* empty text, and a blob with such content gives no message.
C15_ListContent ==
    /\ (probe.fn = "text" /\ probe.done /\ probe.content.kind = "list")
       => /\ probe.result = SpaceJoined(TextParts(probe.content.parts))
          /\ \A i \in DOMAIN probe.content.parts :
                (probe.content.parts[i].isdict /\ probe.content.parts[i].type = "reasoning")
                => ~contains(probe.result, probe.content.parts[i].text)
          /\ OnlyReasoning(probe.content) => probe.result = <<>>
    /\ Extracted
       => Len(probe.result)
             <= Cardinality({i \in DOMAIN probe.blobs :
                               ~(probe.blobs[i].data.isdict
                                 /\ OnlyReasoning(probe.blobs[i].data.content))})
\* Two text parts with a reasoning part between them.
C15_Witness ==
    /\ probe.fn = "text" /\ probe.done
    /\ probe.content = ListContent(<<Part("text", PlainText), Part("reasoning", ReasoningText),
                                     Part("text", SecondText)>>)
    /\ probe.result = <<"P","l","e","a","s","e"," ","r","e","n","a","m","e"," ","t","h","e"," ","c","o","n","f","i","g"," ","l","o","a","d","e","r"," ","m","o","d","u","l","e"," ","a","n","d"," ","t","h","e","n"," ","I"," ","u","p","d","a","t","e","d"," ","t","h","e"," ","u","n","i","t"," ","t","e","s","t","s">>

\* pat stands in text at position i.
At(text, pat, i) ==
    i >= 1 /\ i + Len(pat) - 1 <= Len(text) /\ SubSeq(text, i, i + Len(pat) - 1) = pat
\* The <user_query> spans of a text: i the place of an opening tag, j the
\* place of the first closing tag after it.
Spans(text) ==
    {p \in (DOMAIN text) \X (DOMAIN text) :
        /\ At(text, UserQueryOpen, p[1]) /\ At(text, UserQueryClose, p[2])
        /\ p[2] >= p[1] + Len(UserQueryOpen)
        /\ \A j \in (p[1] + Len(UserQueryOpen))..(p[2] - 1) : ~At(text, UserQueryClose, j)}
\* The first span.
FirstSpan(text) == CHOOSE p \in Spans(text) : \A q \in Spans(text) : p[1] <= q[1]
BeginsWithTag(text) == \E k \in DOMAIN metadata_tags : startswith(text, metadata_tags[k])
\* C16: for a text with a <user_query> span _extract_user_query returns the
\* inner text of the span without the whitespace at its ends, also when the
\* text begins with a metadata tag; for a text with no span that begins with a
\* metadata tag it returns the empty text, and a user blob with that text
\* gives no message.
C16_UserQuery ==
    /\ (probe.fn = "query" /\ probe.done)
       => /\ Spans(probe.text) # {}
             => probe.result = strip(SubSeq(probe.text,
                                            FirstSpan(probe.text)[1] + Len(UserQueryOpen),
                                            FirstSpan(probe.text)[2] - 1))
          /\ (Spans(probe.text) = {} /\ BeginsWithTag(probe.text)) => probe.result = <<>>
    /\ (Extracted /\ Len(probe.blobs) = 1 /\ probe.blobs[1].data.isdict
        /\ probe.blobs[1].data.role = "user" /\ probe.blobs[1].data.content.kind = "str"
        /\ Spans(probe.blobs[1].data.content.text) = {}
        /\ BeginsWithTag(probe.blobs[1].data.content.text))
       => probe.result = <<>>
\* A text that begins with <user_info> and has a span.
C16_Witness ==
    /\ probe.fn = "query" /\ probe.done
    /\ probe.text = UserText
    /\ BeginsWithTag(probe.text) /\ Spans(probe.text) # {}
    /\ probe.result = <<"F","i","x"," ","t","h","e"," ","l","o","g","i","n"," ","b","u","g"," ","i","n"," ","a","u","t","h",".","p","y">>
\* A text with no span that begins with <system_reminder> and goes on with a
\* request: the empty text.
C16_WitnessDropped ==
    /\ probe.fn = "query" /\ probe.done
    /\ probe.text = ReminderText
    /\ probe.result = <<>>

\* is_summary_actionable was applied to the summary of the probe.
SummaryScreened == probe.fn = "actionable" /\ probe.done
\* The text has one of the phrases of the list that speak of a chat with no
\* task; "testing" is a word of the list that does not.
ReportsNoTask(text) ==
    \E k \in DOMAIN reject_phrases :
        reject_phrases[k] # <<"t","e","s","t","i","n","g">> /\ contains(lower(text), reject_phrases[k])
\* C17 as stated: is_summary_actionable rejects "No actionable content", and
\* accepts every text of at least 10 words and at least 50 letters that does
\* not report an empty or task-less chat.
C17_AsStated ==
    SummaryScreened
    => /\ probe.summary = SomeText(NoActionSummary) => probe.result = FALSE
       /\ (/\ truthy(probe.summary)
           /\ word_count(probe.summary.text) >= MinSummaryWords
           /\ alpha_count(probe.summary.text) >= MinAlphaChars
           /\ ~ReportsNoTask(probe.summary.text))
          => probe.result = TRUE
\* C17 with the list as the code has it: a text is accepted exactly when it
\* has at least 10 words, at least 50 letters and none of the phrases of
\* reject_phrases in its lower-cased form.
C17_ScreenByList ==
    SummaryScreened
    => (probe.result = TRUE
        <=> /\ truthy(probe.summary)
            /\ word_count(probe.summary.text) >= MinSummaryWords
            /\ alpha_count(probe.summary.text) >= MinAlphaChars
            /\ ~ReportsNoTask(probe.summary.text)
            /\ ~contains(lower(probe.summary.text), <<"t","e","s","t","i","n","g">>))
\* Twelve words and eighty letters about work on tests: rejected.
C17_Witness ==
    /\ SummaryScreened
    /\ probe.summary = SomeText(TestingSummary)
    /\ word_count(probe.summary.text) = 12
    /\ alpha_count(probe.summary.text) = 80
    /\ ~ReportsNoTask(probe.summary.text)
    /\ probe.result = FALSE
\* Twelve words and eighty letters with no phrase of the list: accepted.
C17_WitnessAccepted ==
    /\ SummaryScreened
    /\ probe.summary = SomeText(TwelveWords)
    /\ word_count(probe.summary.text) = 12
    /\ alpha_count(probe.summary.text) = 80
    /\ probe.result = TRUE

\* generate_summary returned a text for the call of the probe.
Generated == probe.fn = "generate" /\ probe.done /\ ~probe.result.isNone
\* What the call returned: stdout without the whitespace at its ends.
Returned == strip(probe.outcome.stdout)
\* The first n words of a text with one space between them and the ellipsis
\* after the last.
RECURSIVE FirstWords(_, _)
FirstWords(words, n) ==
    IF n <= 0 \/ words = <<>> THEN <<>>
    ELSE IF n = 1 \/ Len(words) = 1 THEN words[1]
    ELSE words[1] \o <<" ">> \o FirstWords(Tail(words), n - 1)
\* C20 as stated: for every result of the call and every max_words the text
\* generate_summary returns has at most max_words words: the result itself
\* when it has no more, else its first max_words words and the ellipsis.
C20_AsStated ==
    Generated
    => /\ word_count(probe.result.text) <= probe.max_words
       /\ word_count(Returned) <= probe.max_words => probe.result.text = Returned
       /\ word_count(Returned) > probe.max_words
          => probe.result.text = FirstWords(split(Returned), probe.max_words) \o Ellipsis
\* C20 for max_words of 1 and more.
C20_BoundedForPositive ==
    (Generated /\ probe.max_words >= 1)
    => /\ word_count(probe.result.text) <= probe.max_words
       /\ word_count(Returned) <= probe.max_words => probe.result.text = Returned
       /\ word_count(Returned) > probe.max_words
          => probe.result.text = FirstWords(split(Returned), probe.max_words) \o Ellipsis
\* max_words 0 and a result of two words: the ellipsis alone, one word.
C20_Witness ==
    /\ Generated
    /\ probe.max_words = 0
    /\ Returned = <<"F","i","x","e","d"," ","t","h","e">>
    /\ probe.result = SomeText(Ellipsis)
    /\ word_count(probe.result.text) = 1
\* max_words 3 and a result of five words with two spaces between them: three
\* words, one space between them, the ellipsis after the third.
C20_WitnessCut ==
    /\ Generated
    /\ probe.max_words = 3
    /\ Returned = <<"F","i","x","e","d"," "," ","t","h","e"," "," ","l","o","g","i","n"," "," ","b","u","g"," "," ","i","n">>
    /\ probe.result = SomeText(<<"F","i","x","e","d"," ","t","h","e"," ","l","o","g","i","n",".",".",".">>)

\* The message lists of the model with at least one message, at least 100
\* characters of content in all, at least 50 letters, and no indicator of a
\* summarization request.
MeaningfulLists ==
    {ms \in MessageSeqs :
        /\ Len(ms) >= 1
        /\ Len(total_content(ms)) >= MinContentChars
        /\ alpha_count(total_content(ms)) >= MinAlphaChars
        /\ ~is_curlens_meta_chat(total_content(ms))}
\* C18: every completion call of a hook pass and of a backfill pass was given
\* a message list with at least one message, at least 100 characters, at least
\* 50 letters and no meta-chat indicator; for the hook it is the list the pass
\* extracted and screened.
C18_CallsOnlyMeaningful ==
    /\ \A i \in DOMAIN lastPass.calls : lastPass.calls[i].messages \in MeaningfulLists
    /\ (lastPass.kind = "hook" /\ lastPass.calls # <<>>)
       => lastPass.calls[1].messages = lastPass.messages
    /\ lastPass.exit = "not_meaningful" => lastPass.calls = <<>>
\* A backfill pass with a call.
C18_Witness ==
    /\ lastPass.kind = "backfill"
    /\ lastPass.calls # <<>>
    /\ lastPass.calls[1].messages \in MeaningfulLists
    /\ Len(total_content(lastPass.calls[1].messages)) >= MinContentChars
\* A hook pass whose messages the screen rejected: no call.
C18_WitnessRejected ==
    /\ lastPass.kind = "hook"
    /\ lastPass.exit = "not_meaningful"
    /\ lastPass.messages # <<>> /\ lastPass.messages \notin MeaningfulLists
    /\ lastPass.calls = <<>>

\* The chat of the probe went before the screens of the hook and of backfill.
ChatScreened == probe.fn = "meta" /\ probe.done
\* A message extracted from the chat holds the prompt, as much of it as a
\* message keeps.
PromptExtracted ==
    \E i \in DOMAIN probe.result.messages :
        contains(probe.result.messages[i].content, prefix(probe.prompt, MaxContentLen))
\* C19: a chat whose extracted messages hold a prompt of build_summary_prompt,
\* fresh or update, is rejected by has_meaningful_messages; the hook and
\* backfill end at that screen, with no completion call and no write, so no
\* summary of a summarization request is there to be summarized in turn.
C19_OwnRequestsRejected ==
    (ChatScreened /\ PromptExtracted)
    => /\ probe.result.meaningful = FALSE
       /\ probe.result.hook.exit = "not_meaningful"
       /\ probe.result.hook.calls = <<>> /\ probe.result.hook.writes = <<>>
       /\ probe.result.backfill.result = "not_meaningful"
       /\ probe.result.backfill.calls = <<>> /\ probe.result.backfill.writes = <<>>
\* An update prompt in a <user_query> span, with the reply, after another
\* exchange: four blobs, three or more messages, rejected.
C19_Witness ==
    /\ ChatScreened /\ PromptExtracted
    /\ startswith(probe.prompt, <<"U","p","d","a","t","e"," ","t","h","i","s"," ","c","h","a","t"," ","s","u","m","m","a","r","y"," ","w","i","t","h"," ","n","e","w"," ","m","e","s","s","a","g","e","s",".">>)
    /\ Len(probe.blobs) = 4
    /\ probe.blobs[3].data.content.kind = "str"
    /\ startswith(probe.blobs[3].data.content.text, <<"<","u","s","e","r","_","i","n","f","o",">">>)
    /\ Len(probe.result.messages) >= 3
    /\ Len(total_content(probe.result.messages)) >= MinContentChars
    /\ probe.result.hook.exit = "not_meaningful"
\* A fresh prompt longer than a message keeps: its first 2000 characters are
\* extracted, and rejected.
C19_WitnessCut ==
    /\ ChatScreened /\ PromptExtracted
    /\ startswith(probe.prompt, <<"S","u","m","m","a","r","i","z","e"," ","t","h","i","s"," ","c","o","d","i","n","g"," ","c","h","a","t"," ","i","n"," ","7","0"," ","w","o","r","d","s"," ","o","r"," ","l","e","s","s",".">>)
    /\ Len(probe.prompt) > MaxContentLen
    /\ probe.result.meaningful = FALSE

(***************************************************************************)
(* Backfill runs: failures, the limit, the dry run.                        *)
(***************************************************************************)
\* A run of backfill over the batch has returned.
BackfillDone == probe.fn = "backfill" /\ probe.done
\* The turns of the run whose except clause ran.
RaisedTurns == {i \in DOMAIN probe.result.turns : probe.result.turns[i].raised}
\* The chat makes it to upsert_summary when nothing fails.
Sound(chat) ==
    /\ chat.store = FullStore /\ chat.fault = "none"
    /\ chat.outcome = Exit(0, GoodSummary \o <<"\n">>)

\* C21: in a run of backfill that is not a dry run, every chat of the batch
\* to process gets its turn, in order, whatever the turns before it raised;
\* every turn that raised is counted as failed, once; and every sound chat
\* of the batch has its record after the run, the ones after a failing chat
\* included.
C21_BadChatNeverAborts ==
    (BackfillDone /\ ~probe.in.dry_run) =>
        /\ [i \in DOMAIN probe.result.turns |-> probe.result.turns[i].conv]
               = probe.result.to_process
        /\ probe.result.stats.failed = Cardinality(RaisedTurns)
        /\ \A i \in DOMAIN probe.result.to_process :
               Sound(probe.profile[probe.result.to_process[i]]) =>
                   get_summary_state(summaries, probe.result.to_process[i]) # {}
\* The first chat raised, and the two after it were processed and stored.
C21_Witness ==
    /\ BackfillDone /\ ~probe.in.dry_run
    /\ Len(probe.result.turns) = 3
    /\ probe.result.turns[1].raised /\ probe.result.turns[1].writes = <<>>
    /\ probe.result.turns[2].result = "success" /\ ~probe.result.turns[2].raised
    /\ probe.result.turns[3].result = "success"
    /\ probe.result.stats.failed = 1 /\ probe.result.stats.processed = 2
    /\ get_summary_state(summaries, "c2") # {} /\ get_summary_state(summaries, "c3") # {}

\* C23: for every integer limit given to backfill, 0 included, the run makes
\* at most limit completion calls and at most limit summary writes.
C23_AsStated ==
    (BackfillDone /\ ~probe.in.limit.isNone) =>
        /\ Len(lastPass.calls) <= probe.in.limit.n
        /\ Len(lastPass.writes) <= probe.in.limit.n
\* A limit of at least one bounds the turns, the calls and the writes.
C23_PositiveLimitBounds ==
    (BackfillDone /\ ~probe.in.limit.isNone /\ probe.in.limit.n >= 1) =>
        /\ Len(probe.result.turns) <= probe.in.limit.n
        /\ Len(lastPass.calls) <= probe.in.limit.n
        /\ Len(lastPass.writes) <= probe.in.limit.n
\* --limit 0: three chats processed, three calls, three records written.
C23_Witness ==
    /\ BackfillDone /\ ~probe.in.limit.isNone /\ probe.in.limit.n = 0
    /\ Len(lastPass.calls) = 3 /\ Len(lastPass.writes) = 3
    /\ Cardinality(summaries \ lastPass.before) = 3
\* --limit -1: all chats but the last are processed.
C23_WitnessNegative ==
    /\ BackfillDone /\ ~probe.in.limit.isNone /\ probe.in.limit.n < 0
    /\ Len(probe.result.turns) = 2 /\ Len(lastPass.writes) = 2

\* C24: a dry run makes no completion call and no write, leaves the table
\* of summaries as it was, every field of every row, and returns processed,
\* skipped_no_messages, skipped_not_meaningful, skipped_not_actionable and
\* failed at zero.
C24_DryRunChangesNothing ==
    (BackfillDone /\ probe.in.dry_run) =>
        /\ lastPass.calls = <<>> /\ lastPass.writes = <<>>
        /\ summaries = lastPass.before
        /\ probe.result.stats.processed = 0
        /\ probe.result.stats.skipped_no_messages = 0
        /\ probe.result.stats.skipped_not_meaningful = 0
        /\ probe.result.stats.skipped_not_actionable = 0
        /\ probe.result.stats.failed = 0
\* A dry run over a batch that a real run would have summarized, skipped and
\* failed on, with a record in the table.
C24_Witness ==
    /\ BackfillDone /\ probe.in.dry_run
    /\ Len(probe.result.to_process) = 2
    /\ Sound(probe.profile["c1"])
    /\ probe.profile["c3"].fault = "read"
    /\ summaries = {OrphanRow}
    /\ probe.result.stats.skipped_exists = 1
    /\ probe.result.stats.total = 3

(***************************************************************************)
(* Reading the blobs of a conversation.                                    *)
(***************************************************************************)
\* list_json_blobs was applied to a table that sqlite could open.
Listed == probe.fn = "list" /\ probe.done /\ probe.read_ok
\* The record is the text of a JSON value.
Parseable(row) == row.data.starts_brace /\ row.data.utf8 /\ row.data.parses

\* C22: reading a conversation's blobs returns every record that parses, in
\* the order of the store, whatever the other records of the store hold.
C22_AsStated ==
    Listed => probe.result = SelectSeq(probe.rows, Parseable)
\* It does so when every record that starts with '{' is UTF-8 text.
C22_SkipsUnparsable ==
    (Listed /\ \A i \in DOMAIN probe.rows :
                  probe.rows[i].data.starts_brace => probe.rows[i].data.utf8)
        => probe.result = SelectSeq(probe.rows, Parseable)
\* Two records that parse around one that starts with '{' and is not UTF-8:
\* nothing is returned.
C22_Witness ==
    /\ Listed
    /\ probe.rows = <<Row(1, UserBlob), Row(2, UndecodableBlob), Row(3, AssistantBlob)>>
    /\ probe.result = <<>>
\* A record that does not parse between two that do is skipped alone.
C22_WitnessSkipped ==
    /\ Listed
    /\ probe.rows = <<Row(1, UserBlob), Row(2, UnparsableBlob), Row(3, AssistantBlob)>>
    /\ probe.result = <<Row(1, UserBlob), Row(3, AssistantBlob)>>

(***************************************************************************)
(* The order in which decode tries the segmentations.                      *)
(***************************************************************************)
\* The segmentations of parts in the order of a depth-first search that
\* takes 1, 2, 3... parts as the next segment.
RECURSIVE SegmentationsInOrder(_)
SegmentationsFrom(parts, i) ==
    [k \in 1..Len(SegmentationsInOrder(SubSeq(parts, i + 1, Len(parts)))) |->
        <<join(<<"-">>, SubSeq(parts, 1, i))>>
        \o SegmentationsInOrder(SubSeq(parts, i + 1, Len(parts)))[k]]
SegmentationsInOrder(parts) ==
    IF parts = <<>> THEN << <<>> >>
    ELSE flatten([i \in 1..Len(parts) |-> SegmentationsFrom(parts, i)])
\* Those that begin with the first part as the anchor, in the same order.
Anchored(parts) ==
    [k \in 1..Len(SegmentationsInOrder(Tail(parts))) |->
        <<parts[1]>> \o SegmentationsInOrder(Tail(parts))[k]]
\* The segmentations of the folder name that are directories of the tree.
ExistingInOrder(folder_name, tree) ==
    SelectSeq(Anchored(split_on(folder_name, "-")),
              LAMBDA s : isdir(path_of_segments(s), tree))
FirstExisting(folder_name, tree) ==
    IF ExistingInOrder(folder_name, tree) = <<>> THEN NoneText
    ELSE SomeText(path_of_segments(ExistingInOrder(folder_name, tree)[1]))

\* C25: decode returns the first segmentation, in depth-first order with the
\* segment at each position growing from one token, that is an existing
\* directory, and None only when no segmentation is one.
C25_AsStated ==
    Decoded => probe.result = FirstExisting(probe.folder_name, probe.tree)
\* It does for the names whose first token is "Users".
C25_FirstInOrderUnderUsers ==
    (Decoded /\ split_on(probe.folder_name, "-")[1] = Users)
        => probe.result = FirstExisting(probe.folder_name, probe.tree)
\* Only /home/a-a/a exists under /home, and "home-a-a-a" decodes to None.
C25_Witness ==
    /\ Decoded
    /\ probe.folder_name = <<"h","o","m","e","-","a","-","a","-","a">>
    /\ probe.tree = Closure({<<<<"h","o","m","e">>, <<"a","-","a">>, <<"a">>>>})
    /\ FirstExisting(probe.folder_name, probe.tree) = SomeText(<<"/","h","o","m","e","/","a","-","a","/","a">>)
    /\ probe.result = NoneText
\* Both /Users/a/a-a and /Users/a-a/a exist: the one whose first segment
\* takes fewer tokens is returned.
C25_WitnessOrder ==
    /\ Decoded
    /\ probe.folder_name = <<"U","s","e","r","s","-","a","-","a","-","a">>
    /\ probe.tree = Closure({<<Users, <<"a">>, <<"a","-","a">>>>, <<Users, <<"a","-","a">>, <<"a">>>>})
    /\ probe.result = SomeText(<<"/","U","s","e","r","s","/","a","/","a","-","a">>)

(***************************************************************************)
(* The messages of a blob list.                                            *)
(***************************************************************************)
\* The ways to pick n of m positions, in order.
Embeddings(n, m) == {f \in [1..n -> 1..m] : \A i \in 1..n : \A j \in 1..n : i < j => f[i] < f[j]}
\* Message msg is one of the blob: it has its role and a part of its text.
MessageOf(msg, blob) ==
    /\ blob.data.isdict
    /\ msg.role = blob.data.role
    /\ contains(_extract_text_content(blob.data.content), msg.content)

\* C26: the messages _extract_messages returns are, in order, messages of
\* distinct blobs of the list taken in the order of the list, each with the
\* role of its blob and a content of 10 to 2000 characters.
C26_OrderPreservingSubsequence ==
    Extracted =>
        /\ \E f \in Embeddings(Len(probe.result), Len(probe.blobs)) :
               \A i \in DOMAIN probe.result : MessageOf(probe.result[i], probe.blobs[f[i]])
        /\ \A i \in DOMAIN probe.result :
               Len(probe.result[i].content) >= 10 /\ Len(probe.result[i].content) <= 2000
\* A blob that yields nothing before one whose text is cut to 2000 characters.
C26_Witness ==
    /\ Extracted
    /\ probe.blobs = <<Row(1, JsonDict("user", StrContent(ShortText))),
                       Row(2, JsonDict("assistant", StrContent(LongText)))>>
    /\ Len(LongText) > 2000
    /\ Len(probe.result) = 1
    /\ probe.result[1].role = "assistant"
    /\ probe.result[1].content = SubSeq(LongText, 1, 2000)

(***************************************************************************)
(* The messages of the prompt.                                             *)
(***************************************************************************)
\* build_summary_prompt was applied to the messages of the probe.
Built == probe.fn = "prompt" /\ probe.done
\* The size of the first n messages as json.dumps writes each.
RECURSIVE SerializedSize(_, _)
SerializedSize(messages, n) ==
    IF n = 0 THEN 0 ELSE SerializedSize(messages, n - 1) + json_msg_len(messages[n])
\* The messages that do not fit the budget after those before them.
Overflowing(messages) ==
    {k \in DOMAIN messages : SerializedSize(messages, k) > PromptMaxChars}
FirstOverflowing(messages) ==
    CHOOSE k \in Overflowing(messages) : \A j \in Overflowing(messages) : k <= j
\* short is msg with its content cut and the marker after it.
Shortened(short, msg) ==
    /\ short.role = msg.role
    /\ \E n \in 0..(Len(msg.content) - 1) :
           short.content = SubSeq(msg.content, 1, n) \o <<".",".","."," ","[","t","r","i","m","m","e","d","]">>

\* C27: the prompt holds the messages in order up to the first that does not
\* fit the budget, and that one with its content shortened and the marker
\* appended; nothing after it.
C27_AsStated ==
    Built =>
        IF Overflowing(probe.messages) = {} THEN probe.result.messages = probe.messages
        ELSE /\ Len(probe.result.messages) = FirstOverflowing(probe.messages)
             /\ \A i \in 1..(FirstOverflowing(probe.messages) - 1) :
                    probe.result.messages[i] = probe.messages[i]
             /\ Shortened(probe.result.messages[FirstOverflowing(probe.messages)],
                          probe.messages[FirstOverflowing(probe.messages)])
\* The same, for a first message over the budget of more than 200
\* characters; one of 200 characters or fewer is left out.
C27_PrefixWithLastShortened ==
    Built =>
        IF Overflowing(probe.messages) = {} THEN probe.result.messages = probe.messages
        ELSE /\ \A i \in 1..(FirstOverflowing(probe.messages) - 1) :
                    /\ i \in DOMAIN probe.result.messages
                    /\ probe.result.messages[i] = probe.messages[i]
             /\ IF Len(probe.messages[FirstOverflowing(probe.messages)].content) > 200
                THEN /\ Len(probe.result.messages) = FirstOverflowing(probe.messages)
                     /\ Shortened(probe.result.messages[FirstOverflowing(probe.messages)],
                                  probe.messages[FirstOverflowing(probe.messages)])
                     /\ Len(probe.result.messages[FirstOverflowing(probe.messages)].content)
                            = 200 + Len(<<".",".","."," ","[","t","r","i","m","m","e","d","]">>)
                ELSE Len(probe.result.messages) = FirstOverflowing(probe.messages) - 1
\* Three messages fill the budget and the fourth, a line of the user, is not
\* in the prompt at all.
C27_Witness ==
    /\ Built
    /\ probe.messages = <<BigMessage, BigMessage, MidMessage, SmallMessage>>
    /\ FirstOverflowing(probe.messages) = 4
    /\ probe.result.messages = <<BigMessage, BigMessage, MidMessage>>
\* The third long message is in the prompt with 200 characters and the marker.
C27_WitnessShortened ==
    /\ Built
    /\ probe.messages = <<BigMessage, BigMessage, BigMessage, SmallMessage>>
    /\ Len(probe.result.messages) = 3
    /\ probe.result.messages[3].content = SubSeq(BigMessage.content, 1, 200) \o <<".",".","."," ","[","t","r","i","m","m","e","d","]">>

(***************************************************************************)
(* The response of the hook handler.                                       *)
(***************************************************************************)
\* C30: every invocation of the hook handler ends with exactly one
\* {"continue": true} response, whatever path it took.
C30_AsStated ==
    lastPass.kind = "hook" => lastPass.continues = 1
\* Every invocation whose payload is empty, is not JSON or is a JSON object
\* does: at each gate, when nothing is new, when the messages or the summary
\* are screened out, when the completion call fails, and after the write.
C30_OneResponsePerObjectPayload ==
    (lastPass.kind = "hook" /\ lastPass.gate # "not_object") => lastPass.continues = 1
\* The payload was a JSON list: main raised at payload.get and printed no
\* response.
C30_Witness ==
    /\ lastPass.kind = "hook" /\ lastPass.gate = "not_object"
    /\ lastPass.exit = "raised"
    /\ lastPass.continues = 0
    /\ lastPass.calls = <<>> /\ lastPass.writes = <<>>
\* A pass that wrote its summary and answered once.
C30_WitnessWritten ==
    /\ lastPass.kind = "hook" /\ lastPass.exit = "written"
    /\ lastPass.writes # <<>>
    /\ lastPass.continues = 1

(***************************************************************************)
(* Invocations that interleave, and hooks inside a completion call.        *)
(***************************************************************************)
HooksRunning == probe.fn = "hooks"
\* The last write committed.
LastCommit == probe.commits[Len(probe.commits)]

\* C28: however the invocations for a conversation interleave, its record is
\* at every moment the one write that committed last, summary_text and
\* blob_ids_json together, both those of one process (the summary it was
\* given and the ids of the blobs it read), with the created_at of the
\* write that inserted the row.
C28_WritesAreWhole ==
    HooksRunning =>
        IF probe.commits = <<>> THEN rows_of(summaries, "c1") = {}
        ELSE \E r \in rows_of(summaries, "c1") :
                /\ rows_of(summaries, "c1") = {r}
                /\ r.summary_text = LastCommit.summary_text
                /\ r.blob_ids_json = LastCommit.blob_ids
                /\ r.updated_at = LastCommit.now
                /\ r.created_at = probe.commits[1].now
                /\ probe.commits[1].inserted
                /\ \E p \in HookProcs :
                       /\ probe.procs[p].pc = "done" /\ probe.procs[p].write # <<>>
                       /\ r.summary_text = probe.procs[p].write[1].summary_text
                       /\ r.blob_ids_json = ids_of(probe.procs[p].blobs)
\* Two invocations had both read the store and the record before either
\* wrote; they read different blobs, were given different summaries and
\* wrote at different times; the record is the second write with the
\* created_at of the first.
C28_Witness ==
    /\ HooksRunning
    /\ Len(probe.commits) = 2
    /\ probe.commits[2].proc \in probe.commits[1].pending
    /\ probe.procs[probe.commits[1].proc].existing = {}
    /\ probe.procs[probe.commits[2].proc].existing = {}
    /\ probe.commits[1].blob_ids # probe.commits[2].blob_ids
    /\ probe.commits[1].summary_text # probe.commits[2].summary_text
    /\ probe.commits[1].now < probe.commits[2].now
    /\ probe.procs[probe.commits[2].proc].created_at # probe.commits[1].now
    /\ \E r \in rows_of(summaries, "c1") :
           /\ r.summary_text = probe.commits[2].summary_text
           /\ r.blob_ids_json = probe.commits[2].blob_ids
           /\ r.created_at = probe.commits[1].now

\* The completion calls in flight from process p up to the invocation of the
\* chat tool it descends from.
RECURSIVE CallDepth(_)
CallDepth(p) ==
    (IF probe.procs[p].pc = "in_call" THEN 1 ELSE 0)
    + (IF probe.procs[p].parent = "" THEN 0 ELSE CallDepth(probe.procs[p].parent))

\* C29: an invocation whose environment holds CURLENS_SKIP_HOOKS=1 answers
\* and ends without a read of either store, a completion call or a write;
\* a hook fired from inside a completion call never starts a completion
\* call, and completion calls are never nested.
C29_NoNestedCompletion ==
    HooksRunning =>
        /\ \A p \in HookProcs :
               (probe.procs[p].pc # "idle" /\ probe.procs[p].environ.CURLENS_SKIP_HOOKS = "1")
                   => /\ probe.procs[p].pc = "done"
                      /\ probe.procs[p].reads = 0 /\ probe.procs[p].calls = 0
                      /\ probe.procs[p].write = <<>> /\ probe.procs[p].responses = 1
                      /\ \A i \in DOMAIN probe.commits : probe.commits[i].proc # p
        /\ \A p \in HookProcs : probe.procs[p].parent # "" => probe.procs[p].calls = 0
        /\ \A p \in HookProcs : CallDepth(p) <= 1
\* A hook fired inside the completion call of p1 has answered and ended
\* while the call is still running.
C29_Witness ==
    /\ HooksRunning
    /\ probe.procs["p1"].pc = "in_call" /\ probe.procs["p1"].environ = Environ(FALSE)
    /\ probe.procs["n1"].parent = "p1" /\ probe.procs["n1"].pc = "done"
    /\ probe.procs["n1"].environ.CURLENS_SKIP_HOOKS = "1"
    /\ probe.procs["n1"].reads = 0 /\ probe.procs["n1"].calls = 0
    /\ probe.procs["n1"].responses = 1
    /\ CallDepth("n1") = 1

(***************************************************************************)
(* Backfill: which chats a run touches, and what it counts.                *)
(***************************************************************************)
\* The chat had a workspace path and no record when the run selected it.
Selectable(c) ==
    /\ probe.in.path_of[c] # NoneVal
    /\ get_summary_state(lastPass.before, c) = {}
\* The turns of the run that incremented the counter failed.
FailedTurns == {i \in DOMAIN probe.result.turns : "failed" \in Range(probe.result.turns[i].counted)}

\* C31: after a run of backfill every record the table held before the run
\* is in it unchanged, every field; every turn of the loop, every completion
\* call and every write of the run is for a chat that had a workspace path
\* and no record when the run selected it; and failed counts turns of such
\* chats only, never a chat without a workspace path.
C31_OnlyNewResolvedChats ==
    BackfillDone =>
        /\ lastPass.before \subseteq summaries
        /\ \A i \in DOMAIN probe.result.turns : Selectable(probe.result.turns[i].conv)
        /\ \A i \in DOMAIN lastPass.calls : Selectable(lastPass.calls[i].conv)
        /\ \A i \in DOMAIN lastPass.writes : Selectable(lastPass.writes[i].conv)
        /\ probe.result.stats.failed
               = Cardinality({i \in FailedTurns : Selectable(probe.result.turns[i].conv)})
\* A run over a chat that can be summarized, a chat with a record that could
\* be summarized again, and a chat without a workspace path whose store
\* cannot be read: one record written, the old one as it was, nothing failed.
C31_Witness ==
    /\ BackfillDone /\ ~probe.in.dry_run /\ probe.in.limit.isNone
    /\ Sound(probe.profile["c1"]) /\ Sound(probe.profile["c2"])
    /\ probe.profile["c3"].fault = "read" /\ probe.in.path_of["c3"] = NoneVal
    /\ lastPass.before = {OrphanRow}
    /\ OrphanRow \in summaries /\ Cardinality(summaries) = 2
    /\ [i \in DOMAIN probe.result.turns |-> probe.result.turns[i].conv] = <<"c1">>
    /\ Len(lastPass.calls) = 1 /\ Len(lastPass.writes) = 1
    /\ probe.result.stats.processed = 1 /\ probe.result.stats.failed = 0
    /\ probe.result.stats.skipped_exists = 1

\* The sum of the five counters a turn of the loop can increment.
CounterSum(stats) ==
    stats.processed + stats.skipped_no_messages + stats.skipped_not_meaningful
        + stats.skipped_not_actionable + stats.failed
\* The turns of the run for chats whose meta record holds a null name.
NullNameTurns ==
    {i \in DOMAIN probe.result.turns :
         LET meta == probe.in.metas[probe.result.turns[i].conv]
         IN  ~meta.isNone /\ meta.name = NoneVal}
\* A real run of backfill has returned.
RealRunDone == BackfillDone /\ ~probe.in.dry_run

\* C33: in a run of backfill that is not a dry run, every turn of the loop
\* increments exactly one of processed, skipped_no_messages,
\* skipped_not_meaningful, skipped_not_actionable and failed, whatever the
\* name in the chat's meta record; their sum is the number of turns, and
\* processed is the number of summary writes.
C33_AsStated ==
    RealRunDone =>
        /\ \A i \in DOMAIN probe.result.turns : Len(probe.result.turns[i].counted) = 1
        /\ CounterSum(probe.result.stats) = Len(probe.result.turns)
        /\ probe.result.stats.processed = Len(lastPass.writes)
\* What holds for every name: a turn increments one counter, or two when the
\* name is null and the turn got past its reading (the counter of its result,
\* then failed); processed is the number of writes.
C33_OneCounterUnlessNullName ==
    RealRunDone =>
        /\ \A i \in DOMAIN probe.result.turns :
               Len(probe.result.turns[i].counted)
                   = IF i \in NullNameTurns /\ probe.result.turns[i].result # "raised"
                     THEN 2 ELSE 1
        /\ CounterSum(probe.result.stats)
               = Len(probe.result.turns)
                 + Cardinality({i \in NullNameTurns : probe.result.turns[i].result # "raised"})
        /\ probe.result.stats.processed = Len(lastPass.writes)
\* Two chats attempted, the second with a null name: both written, processed
\* 2 and failed 1, a sum of 3.
C33_Witness ==
    /\ RealRunDone /\ probe.in.limit.isNone
    /\ Len(probe.result.turns) = 2
    /\ Sound(probe.profile["c1"]) /\ probe.profile["c1"].meta.name = "Fix login"
    /\ probe.profile["c3"].meta = Meta(NoneVal, 0)
    /\ probe.result.turns[2].conv = "c3"
    /\ probe.result.turns[2].counted = <<"processed", "failed">>
    /\ probe.result.stats.processed = 2 /\ probe.result.stats.failed = 1
    /\ Len(lastPass.writes) = 2
    /\ CounterSum(probe.result.stats) = 3
\* Three named chats: summarized, without messages, failing in the write.
C33_WitnessNamed ==
    /\ RealRunDone /\ Len(probe.result.turns) = 3 /\ NullNameTurns = {}
    /\ probe.result.stats.processed = 1 /\ probe.result.stats.skipped_no_messages = 1
    /\ probe.result.stats.failed = 1
    /\ CounterSum(probe.result.stats) = 3 /\ Len(lastPass.writes) = 1

(***************************************************************************)
(* A conversation whose store has stopped growing.                         *)
(***************************************************************************)
\* The unchanged state of section 4.4: conversation c has a record, and the
\* record covers every blob id of its store.
Settled(c) ==
    /\ rows_of(summaries, c) # {}
    /\ store_ids(c) \subseteq coveredBlobIds(summaries, c)
\* The pass made a completion call for conversation c.
calls_for(pass, c) == \E i \in DOMAIN pass.calls : pass.calls[i].conv = c
\* One step of the system, seen from conversation c.  A pass that writes the
\* record of c leaves c settled.  From a settled state, a step that does not
\* add to the store of c leaves c settled, makes no completion call for c
\* and writes nothing for c; when the step is a hook invocation for c it
\* leaves the table as it was, and records the state unchanged when it got
\* past the gates.
SettledStep(c) ==
    /\ (write_to(lastPass', c) # {} /\ lastPass'.before = summaries) => Settled(c)'
    /\ (Settled(c) /\ chats'[c] = chats[c]) =>
           /\ Settled(c)'
           /\ ~calls_for(lastPass', c) /\ write_to(lastPass', c) = {}
           /\ rows_of(summaries', c) = rows_of(summaries, c)
           /\ (lastPass'.kind = "hook" /\ lastPass'.conv = c) =>
                  /\ lastPass'.calls = <<>> /\ lastPass'.writes = <<>>
                  /\ summaries' = summaries
                  /\ lastPass'.gate = "none" => lastPass'.state = "unchanged"

\* C32: once a pass has written the record of a conversation, and for as long
\* as the store of the conversation does not grow, the conversation is in
\* the unchanged state, every further invocation for it is a no-op (in the
\* state unchanged when it computes a state), and no pass makes a completion
\* call or a write for it: one completion call that leads to a write, at
\* most, for each content of the store.
C32_QuietOnceWritten ==
    [][\A c \in DOMAIN chats : SettledStep(c)]_vars
\* An invocation finds conversation c1, whose record a first pass created and
\* a later pass updated, with the three ids of its store covered, and does
\* nothing.
C32_Witness ==
    /\ HookRead /\ lastPass.conv = "c1" /\ lastPass.state = "unchanged" /\ NoEffect
    /\ Settled("c1") /\ Len(chats["c1"]) = MaxBlobs
    /\ store_ids("c1") = coveredBlobIds(summaries, "c1")
    /\ Cardinality(store_ids("c1")) = MaxBlobs
    /\ record(summaries, "c1").updated_at > record(summaries, "c1").created_at
====
